---- MODULE Spec2Model ----
(***************************************************************************)
(* Feed Aggregation & Caching Engine of daily-geek-news-bot.               *)
(*                                                                         *)
(*   modules/newsCache.js (axios revision, lines 1-321)                    *)
(*     SimpleCache (get / set / getAll), parseRSSFeedSafe,                 *)
(*     fetchWithFastFail, fetchAllNewsCloudRun, LoadingState               *)
(*   modules/newsCache.js (two-group revision, lines 323-650)              *)
(*     parseRSSFeedSafe, fetchWithFastFail, fetchAllNewsCloudRun           *)
(*   modules/news.js and unnamed/part_000                                  *)
(*     updateNewsCache, getNewsFromCache, isCacheExpired,                  *)
(*     parseRSSWithRetry                                                   *)
(*                                                                         *)
(* Time is in milliseconds, as in the code.  The model keeps no absolute   *)
(* Date.now(); it keeps the differences the code computes from it: the age *)
(* of a cache entry (Date.now() - timestamp), the time a pass has been     *)
(* running, the time left on a backoff timer.  Time advances to the next   *)
(* instant at which one of them reaches a value the code compares against. *)
(*                                                                         *)
(* Specifications:                                                         *)
(*   Spec       callers of fetchAllNewsCloudRun, the passes they start,    *)
(*              the parseRSSFeedSafe invocations and their timers          *)
(*   SpecLive   the same steps with the clock and due timers fair          *)
(*   SpecCache  SimpleCache and getCacheStatus called directly             *)
(*   SpecRetry  one caller of parseRSSWithRetry                            *)
(*   SpecRetryLive  the same caller with its request and timer fair        *)
(*   SpecBackoff    one parseRSSWithRetry call with maxRetries given       *)
(*   SpecGroups the two-group revision of fetchAllNewsCloudRun             *)
(*   SpecNews   the aggregate cache of modules/news.js                     *)
(*   SpecCommand, SpecCommandLive                                          *)
(*              the news command of index.js waiting on that cache         *)
(*   SpecSearch, SpecRebalance                                             *)
(*              searchNews and the shortfall rebalancer on given inputs    *)
(***************************************************************************)
EXTENDS Integers, Sequences, FiniteSets, TLC

(***************************************************************************)
(* Bounds of the model                                                     *)
(***************************************************************************)
\* number of registered feeds (RSS_FEEDS has 5 in the source)
NumFeeds == 2
\* TOTAL_TARGET of fetchAllNewsCloudRun, scaled down with the documents
TOTAL_TARGET == 4
\* fetchAllNewsCloudRun invocations that may be suspended at the same time
MaxPasses == 2
\* fetchAllNewsCloudRun calls plus failing requests in one run
MaxEvents == 4
\* direct calls of cache.set in one run
MaxSets == 3

(***************************************************************************)
(* Program constants                                                       *)
(***************************************************************************)
CACHE_TTL == 600000
RaceTimeout == 35000
BackoffUnit == 1000
MaxAttempts == 3
\* loadingElapsed = null; no timer set
NoTime == -1

Feeds == 1..NumFeeds
PassIds == 1..MaxPasses

\* RSS_FEEDS: feed i has name i and url i
RSS_FEEDS == [i \in Feeds |-> [name |-> i, url |-> i]]

(***************************************************************************)
(* Feed documents.  A raw entry has a link ("" when the entry has neither  *)
(* link nor guid) and a date: a positive number when pubDate parses        *)
(* (rss-parser then sets isoDate), BadDate when pubDate is a string that   *)
(* does not parse (isoDate stays unset, new Date(pubDate) is Invalid       *)
(* Date), NoDate when the entry carries neither pubDate nor isoDate.       *)
(***************************************************************************)
NoDate == 0
BadDate == -1

Entry(l, d) == [link |-> l, date |-> d]

Docs ==
  << << Entry("a", 2), Entry("b", 1), Entry("c", 3) >>,
     << Entry("a", 2), Entry("i", NoDate) >>,
     << Entry("", NoDate), Entry("e", 1), Entry("k", 2) >>,
     << >>,
     << Entry("", 2) >>,
     << Entry("g", BadDate), Entry("h", 3) >> >>

\* a document whose entries all lack a link
Linkless == Docs[5]

\* what the feeds serve in scenario k: feed f serves document k + f - 1 (cyclically)
Scenario(k) == [f \in 1..NumFeeds |-> Docs[((k + f - 2) % Len(Docs)) + 1]]

Scenarios == {Scenario(k) : k \in 1..Len(Docs)} \cup {[f \in 1..NumFeeds |-> Linkless]}

ErrorKinds == {"network", "status", "empty"}

(***************************************************************************)
(* Sequence helpers                                                        *)
(***************************************************************************)
Min(a, b) == IF a <= b THEN a ELSE b

Take(s, n) == SubSeq(s, 1, Min(n, Len(s)))

RECURSIVE Flat(_)
Flat(ss) == IF ss = << >> THEN << >> ELSE Head(ss) \o Flat(Tail(ss))

CeilDiv(a, b) == (a + b - 1) \div b

(***************************************************************************)
(* SimpleCache: a Map in insertion order, each value {data, timestamp}.    *)
(***************************************************************************)
\* age = Date.now() - timestamp
CacheEntry(k, d, a) == [key |-> k, data |-> d, age |-> a]

HasKey(c, k) == \E i \in 1..Len(c) : c[i].key = k

KeyIndex(c, k) == CHOOSE i \in 1..Len(c) : c[i].key = k

\* faulty variant: an entry expires the instant it is CACHE_TTL old
ExpiredFromTTL(e) == e.age >= CACHE_TTL

Expired(e) == e.age > CACHE_TTL

DeleteKey(c, k) == SelectSeq(c, LAMBDA e : e.key # k)

\* get(key): [hit, data, cache]; an expired entry is deleted and reported absent
CacheGet(c, k) ==
  IF ~HasKey(c, k)
    THEN [hit |-> FALSE, data |-> << >>, cache |-> c]
    ELSE LET e == c[KeyIndex(c, k)] IN
         IF Expired(e)
           THEN [hit |-> FALSE, data |-> << >>, cache |-> DeleteKey(c, k)]
           ELSE [hit |-> TRUE, data |-> e.data, cache |-> c]

\* set(key, data): timestamp = Date.now(); Map.set keeps the position of a
\* key that is present
\* faulty variant: set adds an entry without replacing the key's entry
CacheSetAppends(c, k, d) == Append(c, CacheEntry(k, d, 0))

CacheSet(c, k, d) ==
  IF HasKey(c, k)
    THEN [c EXCEPT ![KeyIndex(c, k)] = CacheEntry(k, d, 0)]
    ELSE Append(c, CacheEntry(k, d, 0))

\* faulty variant: getAll skips expired entries without deleting them
CacheGetAllKeepsExpired(c) ==
  LET live == SelectSeq(c, LAMBDA e : e.age <= CACHE_TTL) IN
  [items |-> Flat([i \in 1..Len(live) |-> live[i].data]), cache |-> c]

\* getAll(): [items, cache]
CacheGetAll(c) ==
  LET live == SelectSeq(c, LAMBDA e : e.age <= CACHE_TTL) IN
  [items |-> Flat([i \in 1..Len(live) |-> live[i].data]), cache |-> live]

(***************************************************************************)
(* Items as parseRSSFeedSafe maps them, and the coordinator's filter and   *)
(* sort.  pubDate || isoDate is truthy unless the entry has no date; new   *)
(* Date(isoDate || pubDate) is Invalid Date for BadDate, and the           *)
(* comparator dateB - dateA is then NaN, which sort treats as +0.          *)
(***************************************************************************)
MapItem(e, f) == [link |-> e.link, date |-> e.date, source |-> RSS_FEEDS[f].name]

\* faulty variant: the entries are mapped without the link filter
MapItemsKeepsLinkless(doc, f, n) ==
  LET sliced == Take(doc, n) IN
  [i \in 1..Len(sliced) |-> MapItem(sliced[i], f)]

\* parsedFeed.items.slice(0, itemsPerFeed).map(...).filter(item => item.link)
MapItems(doc, f, n) ==
  LET sliced == Take(doc, n) IN
  SelectSeq([i \in 1..Len(sliced) |-> MapItem(sliced[i], f)], LAMBDA it : it.link # "")

HasDate(it) == it.date # NoDate

ValidDate(it) == it.date > 0

\* the comparator's result as sort uses it: <0, 0, >0
Compare(a, b) == IF ValidDate(a) /\ ValidDate(b) THEN b.date - a.date ELSE 0

\* a consistent comparator: "compares equal" is transitive
ConsistentCmp(s) ==
  \A i, j, k \in 1..Len(s) :
     (Compare(s[i], s[j]) = 0 /\ Compare(s[j], s[k]) = 0) => Compare(s[i], s[k]) = 0

\* insert x behind every element that does not sort after it (stable)
RECURSIVE InsertSorted(_, _)
InsertSorted(sorted, x) ==
  IF sorted = << >> THEN << x >>
  ELSE IF Compare(Head(sorted), x) <= 0
         THEN << Head(sorted) >> \o InsertSorted(Tail(sorted), x)
         ELSE << x >> \o sorted

RECURSIVE StableSort(_)
StableSort(s) ==
  IF s = << >> THEN << >>
  ELSE InsertSorted(StableSort(SubSeq(s, 1, Len(s) - 1)), s[Len(s)])

Permuted(s) == {[i \in 1..Len(s) |-> s[p[i]]] : p \in Permutations(1..Len(s))}

\* Array.prototype.sort: stable for a consistent comparator, otherwise the
\* order is implementation-defined
SortOutcomes(s) == IF ConsistentCmp(s) THEN {StableSort(s)} ELSE Permuted(s)

\* .filter(item => item.pubDate || item.isoDate).sort(...)
FilterAndSort(s) == SortOutcomes(SelectSeq(s, HasDate))

\* limit ? sortedItems.slice(0, limit) : sortedItems   (limit = null or a number)
NoLimit == -1
ApplyLimit(s, limit) == IF limit = NoLimit \/ limit = 0 THEN s ELSE Take(s, limit)

ItemsPerFeed == CeilDiv(TOTAL_TARGET, NumFeeds)

\* the limit arguments callers pass: none, 0, positive numbers
Limits == {NoLimit} \cup (0..TOTAL_TARGET)

\* the return statement, for every limit the caller may have passed
Returned(sortedItems) == [limit \in Limits |-> ApplyLimit(sortedItems, limit)]

(***************************************************************************)
(* State                                                                   *)
(***************************************************************************)
VARIABLES
  upstream,            \* the document each feed serves
  cache,               \* SimpleCache.cache
  isCurrentlyLoading,  \* LoadingState.isLoading
  loadingElapsed,      \* Date.now() - loadingElapsed, NoTime when it is null
  passes,              \* suspended fetchAllNewsCloudRun invocations
  tasks,               \* parseRSSFeedSafe invocations not yet returned
  calls,               \* fetchAllNewsCloudRun calls made so far
  failures,            \* requests that have failed so far
  lastReturn,          \* what fetchAllNewsCloudRun returned in the step just taken
  lastFetch,           \* how parseRSSFeedSafe settled in the step just taken
  lastGet,             \* what a direct call of get / getAll answered in the step just taken
  sets,                \* direct calls of set made so far
  retry                \* the parseRSSWithRetry invocation

\* modules/newsCache.js, two-group revision (lines 323-650)
VARIABLES
  gUpstream,           \* the document each feed serves
  gCache,              \* SimpleCache.cache
  gLoading,            \* isCurrentlyLoading and whether loadingStartTime is set
  gPasses,             \* suspended fetchAllNewsCloudRun invocations
  gTasks,              \* parseRSSFeedSafe invocations not yet returned
  gReturn              \* what fetchAllNewsCloudRun returned in the step just taken

groupVars == << gUpstream, gCache, gLoading, gPasses, gTasks, gReturn >>

\* modules/news.js and its revisions: the aggregate cache
VARIABLES
  newsRevision,        \* which revision of the module is loaded
  newsCache,           \* the newsCache object; age stands for Date.now() - timestamp
  waves,               \* updateNewsCache invocations suspended at Promise.all
  lastNews             \* what the step just taken did to the aggregate cache

newsVars == << newsRevision, newsCache, waves, lastNews >>

\* the query facade and the shortfall rebalancer, each applied to given inputs
VARIABLES
  search,              \* a searchNews call: what fetchAllNews gave it, its arguments, its result
  rebalance,           \* a collection cycle: per-feed stats, the result set before and after
  command,             \* the news command handler of index.js: where it stands, what it replied
  status               \* what getCacheStatus() returned last; live is the number of items
                       \* in the entries that were unexpired when it was called

facadeVars == << search, rebalance, command, status >>

\* the variables of the other revisions and modules
revisionVars == << groupVars, newsVars, facadeVars >>

vars == << upstream, cache, isCurrentlyLoading, loadingElapsed,
           passes, tasks, calls, failures, lastReturn, lastFetch,
           lastGet, sets, retry, revisionVars >>

\* the state of fetchAllNewsCloudRun and its fetches, the cache apart
coordinatorVars == << upstream, isCurrentlyLoading, loadingElapsed,
                      passes, tasks, calls, failures, lastReturn, lastFetch >>

\* one Promise.race of fetchWithFastFail: its state, its value and what settled
\* it: "cached" (the cache hit inside parseRSSFeedSafe), "ok", "noitems",
\* "malformed", "failed" (parseRSSFeedSafe after its requests), "timeout" (the
\* timer)
Pending == [st |-> "pending", value |-> << >>, outcome |-> "none"]
Fulfilled(v, o) == [st |-> "fulfilled", value |-> v, outcome |-> o]
Rejected(o) == [st |-> "rejected", value |-> << >>, outcome |-> o]

\* elapsed: the time since the pass started its races
FreePass == [state |-> "free", elapsed |-> NoTime, race |-> [f \in Feeds |-> Pending]]

\* wait: what is left of the backoff sleep
\* slept: the backoff waits the call has gone through
IdleTask == [pc |-> "idle", attempt |-> 0, wait |-> NoTime, slept |-> << >>]

FirstRequest == [pc |-> "request", attempt |-> 1, wait |-> NoTime, slept |-> << >>]

NoReturn ==
  [kind |-> "none", pass |-> 0, sortedItems |-> << >>, result |-> Returned(<< >>),
   loadingAtEntry |-> FALSE, race |-> [f \in Feeds |-> Pending]]

NoFetch ==
  [feed |-> 0, pass |-> 0, settled |-> "none", value |-> << >>, outcome |-> "none",
   error |-> "none", attempts |-> 0, slept |-> << >>]

\* a pass is in flight from the moment it sets isCurrentlyLoading until it returns
InFlight(p) == passes[p].state = "running"

TaskActive(p, f) == tasks[p][f].pc # "idle"

\* a slot can hold a new invocation when the old one returned and left no fetch behind
SlotFree(p) == ~InFlight(p) /\ \A f \in Feeds : ~TaskActive(p, f)

AllSettled(race) == \A f \in Feeds : race[f].st # "pending"

\* faulty variant: one failed feed discards the results of all feeds
RaceValuesAllOrNothing(race) ==
  IF \E f \in Feeds : race[f].outcome = "failed"
    THEN << >>
    ELSE Flat([f \in 1..NumFeeds |-> race[f].value])

\* results.map(result => fulfilled ? result.value : [])  then .flat()
RaceValues(race) ==
  Flat([f \in 1..NumFeeds |-> IF race[f].st = "fulfilled" THEN race[f].value ELSE << >>])

\* no direct cache call in the step just taken
NoGet ==
  [op |-> "none", key |-> 0, found |-> FALSE, age |-> NoTime, stored |-> << >>,
   hit |-> FALSE, data |-> << >>, before |-> << >>]

\* parseRSSWithRetry not called
IdleRetry ==
  [pc |-> "idle", attempt |-> 0, maxRetries |-> 0, duration |-> 0, started |-> 0,
   timer |-> NoTime, log |-> << >>, returned |-> << >>]

\* ---- two-group revision: records and load-time state ----

NumGroupFeeds == 3
FastCount == 2
GroupFeeds == 1..NumGroupFeeds
MaxGroupPasses == 1
GroupPassIds == 1..MaxGroupPasses

\* RSS_FEEDS.slice(0, 2) and RSS_FEEDS.slice(2)
fastFeeds == {f \in GroupFeeds : f <= FastCount}
slowFeeds == {f \in GroupFeeds : f > FastCount}

GroupItemsPerFeed == CeilDiv(TOTAL_TARGET, NumGroupFeeds)

\* the documents the feeds of this revision serve: three items or none
GroupScenarios == [GroupFeeds -> {Docs[1], Docs[4]}]

\* the fetchWithFastFail calls of one pass: the fast group, the slow group
\* launched in the background, and the whole list tried again
Rounds == {"fast", "slow", "all"}

RoundFeeds(r) ==
  IF r = "fast" THEN fastFeeds ELSE IF r = "slow" THEN slowFeeds ELSE GroupFeeds

NotRaced == [st |-> "none", value |-> << >>, outcome |-> "none"]

GroupFreePass == [phase |-> "free", race |-> [f \in GroupFeeds |-> NotRaced]]

GroupNoReturn ==
  [kind |-> "none", pass |-> 0, sortedItems |-> << >>, round |-> "none",
   race |-> [f \in GroupFeeds |-> NotRaced], background |-> {},
   loadingAtEntry |-> FALSE]

NotLoading == [isCurrentlyLoading |-> FALSE, loadingStartTime |-> FALSE]
NowLoading == [isCurrentlyLoading |-> TRUE, loadingStartTime |-> TRUE]

GroupsLoaded ==
  /\ gCache = << >>
  /\ gLoading = NotLoading
  /\ gPasses = [p \in GroupPassIds |-> GroupFreePass]
  /\ gTasks = [p \in GroupPassIds |-> [r \in Rounds |-> [f \in GroupFeeds |-> "idle"]]]
  /\ gReturn = GroupNoReturn

\* ---- query facade and rebalancer: records ----

NoSearch ==
  [items |-> << >>, keyword |-> << >>, limit |-> NoLimit, result |-> << >>,
   called |-> FALSE]

NoCycle ==
  [requested |-> 0, available |-> << >>, stats |-> << >>, before |-> << >>,
   after |-> << >>, passes |-> 0]

\* no news command received
NoCommand ==
  [pc |-> "idle", waited |-> 0, polls |-> 0, sawReady |-> FALSE, reply |-> "none"]

\* getCacheStatus() not called
NoStatus ==
  [called |-> FALSE, totalCached |-> 0, feeds |-> << >>, ticked |-> FALSE, live |-> 0]

FacadeIdle ==
  /\ search = NoSearch
  /\ rebalance = NoCycle
  /\ command = NoCommand
  /\ status = NoStatus

\* ---- aggregate cache: records and load-time state ----

NumNewsFeeds == 2
MaxWaves == 2
NEWS_TTL == 1800000
NewsFeeds == 1..NumNewsFeeds
WaveIds == 1..MaxWaves

\* "timer": modules/news.js with the initialized flag and the 15-minute
\* timer; "ttl": the TTL revision of modules/news.js, which starts no update
\* at load; "retry": the TTL revision that fetches with parseRSSWithRetry and
\* starts an update at load
NewsRevisions == {"timer", "ttl", "retry"}

EmptyNewsCache ==
  [items |-> << >>, age |-> NoTime, isUpdating |-> FALSE, initialized |-> FALSE]

FreeWave == [state |-> "free", results |-> [f \in NewsFeeds |-> Pending]]

NoNews ==
  [op |-> "none", count |-> 0, offset |-> 0, returned |-> << >>,
   started |-> FALSE, before |-> EmptyNewsCache, allFailed |-> FALSE]

NewsLoaded ==
  /\ newsCache = EmptyNewsCache
  /\ waves = [w \in WaveIds |-> FreeWave]
  /\ lastNews = NoNews

\* what the other revisions' feeds serve while one revision is exercised
RevisionsQuiet ==
  /\ gUpstream = [f \in GroupFeeds |-> Docs[1]]
  /\ newsRevision = "ttl"
  /\ NewsLoaded
  /\ FacadeIdle

\* the module as loaded: empty cache, nothing loading
Loaded ==
  /\ GroupsLoaded
  /\ cache = << >>
  /\ isCurrentlyLoading = FALSE
  /\ loadingElapsed = NoTime
  /\ passes = [p \in PassIds |-> FreePass]
  /\ tasks = [p \in PassIds |-> [f \in Feeds |-> IdleTask]]
  /\ lastReturn = NoReturn
  /\ lastFetch = NoFetch
  /\ lastGet = NoGet
  /\ sets = 0
  /\ retry = IdleRetry

\* nothing counted yet
Unspent ==
  /\ calls = 0
  /\ failures = 0

Init ==
  /\ upstream \in Scenarios
  /\ RevisionsQuiet
  /\ Loaded
  /\ Unspent

(***************************************************************************)
(* fetchAllNewsCloudRun, from its entry to its first suspension            *)
(***************************************************************************)
\* a caller invokes fetchAllNewsCloudRun
Called ==
  /\ calls + failures < MaxEvents
  /\ calls' = calls + 1

\* faulty variant: no finally block
FinallyMissing == UNCHANGED << isCurrentlyLoading, loadingElapsed >>

\* faulty variant: the finally block leaves loadingStartTime
FinallyKeepsStartTime ==
  /\ isCurrentlyLoading' = FALSE
  /\ UNCHANGED loadingElapsed

\* the finally block
FinallyReset ==
  /\ isCurrentlyLoading' = FALSE
  /\ loadingElapsed' = NoTime

\* faulty variant: the loading flag is not consulted
NeverLoading == FALSE

\* if (isCurrentlyLoading)
AlreadyLoading == isCurrentlyLoading

\* isLoadingNews(), and the isLoading field of getCacheStatus()
isLoadingNews == isCurrentlyLoading

\* 1. the cache holds items: filter, sort, cap, return
FetchAllCacheHit ==
  LET g == CacheGetAll(cache) IN
  /\ Called
  /\ g.items # << >>
  /\ \E sortedItems \in FilterAndSort(g.items) :
       lastReturn' = [NoReturn EXCEPT !.kind = "cache", !.sortedItems = sortedItems,
                        !.result = Returned(sortedItems),
                        !.loadingAtEntry = isCurrentlyLoading]
  /\ cache' = g.cache
  /\ FinallyReset
  /\ lastFetch' = NoFetch
  /\ UNCHANGED << upstream, passes, tasks, failures >>
  /\ UNCHANGED << lastGet, sets, retry, revisionVars >>

\* 2. cache miss while a pass is loading: return []
FetchAllAlreadyLoading ==
  LET g == CacheGetAll(cache) IN
  /\ Called
  /\ g.items = << >>
  /\ AlreadyLoading
  /\ lastReturn' = [NoReturn EXCEPT !.kind = "loading",
                                     !.loadingAtEntry = isCurrentlyLoading]
  /\ cache' = g.cache
  /\ FinallyReset
  /\ lastFetch' = NoFetch
  /\ UNCHANGED << upstream, passes, tasks, failures >>
  /\ UNCHANGED << lastGet, sets, retry, revisionVars >>

\* the return statement of a pass and the finally block behind it
PassReturns(p, race) ==
  /\ \E sortedItems \in FilterAndSort(RaceValues(race)) :
       lastReturn' = [NoReturn EXCEPT !.kind = "pass", !.pass = p,
                        !.sortedItems = sortedItems,
                        !.result = Returned(sortedItems), !.race = race]
  /\ passes' = [passes EXCEPT ![p] = FreePass]
  /\ FinallyReset

\* a race of pass p settles; the pass resumes when it was the last one
Settle(p, race) ==
  IF AllSettled(race)
    THEN PassReturns(p, race)
    ELSE /\ passes' = [passes EXCEPT ![p].race = race]
         /\ lastReturn' = NoReturn
         /\ UNCHANGED << isCurrentlyLoading, loadingElapsed >>

\* 3. cache miss, nothing loading: start a pass (fetchWithFastFail calls
\*    parseRSSFeedSafe for every feed, each runs up to its first await)
FetchAllStartPass(p) ==
  LET g == CacheGetAll(cache)
      hit(f) == CacheGet(g.cache, RSS_FEEDS[f].url).hit
      data(f) == CacheGet(g.cache, RSS_FEEDS[f].url).data
      race == [f \in Feeds |-> IF hit(f) THEN Fulfilled(data(f), "cached") ELSE Pending]
  IN
  /\ Called
  /\ g.items = << >>
  /\ ~AlreadyLoading
  /\ SlotFree(p)
  /\ \A q \in PassIds : q < p => ~SlotFree(q)
  /\ cache' = g.cache
  /\ tasks' = [tasks EXCEPT ![p] =
                 [f \in Feeds |-> IF hit(f) THEN IdleTask ELSE FirstRequest]]
  /\ IF AllSettled(race)
       THEN PassReturns(p, race)
       ELSE /\ passes' = [passes EXCEPT ![p] =
                            [state |-> "running", elapsed |-> 0, race |-> race]]
            /\ isCurrentlyLoading' = TRUE
            /\ loadingElapsed' = 0
            /\ lastReturn' = NoReturn
  /\ lastFetch' = NoFetch
  /\ UNCHANGED << upstream, failures >>
  /\ UNCHANGED << lastGet, sets, retry, revisionVars >>

(***************************************************************************)
(* parseRSSFeedSafe, from the answer to a request to its next suspension   *)
(***************************************************************************)
\* parseRSSFeedSafe settles (returns v, or throws): its race takes the
\* outcome unless the timer has won already or the pass is gone
FetchSettles(p, f, r, err) ==
  /\ lastFetch' = [feed |-> f, pass |-> p, settled |-> r.st, value |-> r.value,
                   outcome |-> r.outcome, error |-> err,
                   attempts |-> tasks[p][f].attempt, slept |-> tasks[p][f].slept]
  /\ tasks' = [tasks EXCEPT ![p][f] = IdleTask]
  /\ IF InFlight(p) /\ passes[p].race[f].st = "pending"
       THEN Settle(p, [passes[p].race EXCEPT ![f] = r])
       ELSE /\ lastReturn' = NoReturn
            /\ UNCHANGED << passes, isCurrentlyLoading, loadingElapsed >>

\* faulty variant: the catch block rethrows
CatchRethrows(p, f, outcome, err) ==
  FetchSettles(p, f, Rejected(outcome), err)

\* the catch block: log, return []
CatchReturnsEmpty(p, f, outcome, err) ==
  FetchSettles(p, f, Fulfilled(<< >>, outcome), err)

\* httpClient.get answers with a body that parses: slice, map, filter, cache.set
RequestSucceeds(p, f) ==
  LET doc == upstream[f]
      items == MapItems(doc, f, ItemsPerFeed)
  IN
  /\ tasks[p][f].pc = "request"
  /\ IF doc = << >>
       THEN /\ FetchSettles(p, f, Fulfilled(<< >>, "noitems"), "none")
            /\ UNCHANGED cache
       ELSE /\ FetchSettles(p, f, Fulfilled(items, "ok"), "none")
            /\ cache' = CacheSet(cache, RSS_FEEDS[f].url, items)
  /\ UNCHANGED << upstream, calls, failures >>
  /\ UNCHANGED << lastGet, sets, retry, revisionVars >>

\* faulty variant: a body that does not parse is cached as an empty feed
RequestMalformedCachesEmpty(p, f) ==
  /\ tasks[p][f].pc = "request"
  /\ CatchReturnsEmpty(p, f, "malformed", "parse")
  /\ cache' = CacheSet(cache, RSS_FEEDS[f].url, << >>)
  /\ UNCHANGED << upstream, calls, failures >>
  /\ UNCHANGED << lastGet, sets, retry, revisionVars >>

\* httpClient.get answers with a body parser.parseString rejects
RequestMalformed(p, f) ==
  /\ tasks[p][f].pc = "request"
  /\ CatchReturnsEmpty(p, f, "malformed", "parse")
  /\ UNCHANGED << upstream, cache, calls, failures >>
  /\ UNCHANGED << lastGet, sets, retry, revisionVars >>

\* httpClient.get throws (network error, timeout, HTTP status) or the body is empty
RequestFails(p, f, kind) ==
  LET t == tasks[p][f] IN
  /\ t.pc = "request"
  /\ kind \in ErrorKinds
  /\ calls + failures < MaxEvents
  /\ failures' = failures + 1
  /\ IF t.attempt < MaxAttempts
       THEN /\ tasks' = [tasks EXCEPT ![p][f] =
                           [t EXCEPT !.pc = "backoff", !.wait = t.attempt * BackoffUnit,
                                     !.slept = Append(@, t.attempt * BackoffUnit)]]
            /\ lastReturn' = NoReturn
            /\ lastFetch' = [NoFetch EXCEPT !.feed = f, !.pass = p, !.outcome = "retry",
                                           !.error = kind, !.attempts = t.attempt,
                                           !.slept = Append(t.slept, t.attempt * BackoffUnit)]
            /\ UNCHANGED << passes, isCurrentlyLoading, loadingElapsed >>
       ELSE CatchReturnsEmpty(p, f, "failed", kind)
  /\ UNCHANGED << upstream, cache, calls >>
  /\ UNCHANGED << lastGet, sets, retry, revisionVars >>

\* the backoff timer fires: next attempt
BackoffFires(p, f) ==
  LET t == tasks[p][f] IN
  /\ t.pc = "backoff"
  /\ t.wait = 0
  /\ tasks' = [tasks EXCEPT ![p][f] =
                 [t EXCEPT !.pc = "request", !.attempt = @ + 1, !.wait = NoTime]]
  /\ lastReturn' = NoReturn
  /\ lastFetch' = NoFetch
  /\ UNCHANGED << upstream, cache, isCurrentlyLoading, loadingElapsed, passes, calls, failures >>
  /\ UNCHANGED << lastGet, sets, retry, revisionVars >>

\* faulty variant: the race has no timer
RaceTimersNeverFire(p) ==
  /\ FALSE
  /\ UNCHANGED vars

(***************************************************************************)
(* fetchWithFastFail: the per-feed timer of Promise.race resolves []       *)
(***************************************************************************)
RaceTimersFire(p) ==
  /\ InFlight(p)
  /\ passes[p].elapsed >= RaceTimeout
  /\ PassReturns(p, [f \in Feeds |-> IF passes[p].race[f].st = "pending"
                                       THEN Fulfilled(<< >>, "timeout")
                                       ELSE passes[p].race[f]])
  /\ lastFetch' = NoFetch
  /\ UNCHANGED << upstream, cache, tasks, calls, failures >>
  /\ UNCHANGED << lastGet, sets, retry, revisionVars >>

(***************************************************************************)
(* The clock.  Time advances by d, the distance to an instant at which a   *)
(* timer is due or a cache entry reaches the boundary of its TTL, and      *)
(* never past a timer that is due.  An entry's age stops counting once the *)
(* entry is expired.                                                       *)
(***************************************************************************)
AgeCap == CACHE_TTL + 1

BackoffWaits ==
  {tasks[pf[1]][pf[2]].wait :
     pf \in {x \in PassIds \X Feeds : tasks[x[1]][x[2]].pc = "backoff"}}

RaceWaits == {RaceTimeout - passes[p].elapsed : p \in {q \in PassIds : InFlight(q)}}

TimerWaits == BackoffWaits \cup RaceWaits

ExpiryWaits ==
  {AgeCap - cache[i].age : i \in 1..Len(cache)}

Advance(d) ==
  /\ cache' = [i \in 1..Len(cache) |->
                 [cache[i] EXCEPT !.age = Min(cache[i].age + d, AgeCap)]]
  /\ passes' = [p \in PassIds |->
                  IF InFlight(p) THEN [passes[p] EXCEPT !.elapsed = @ + d] ELSE passes[p]]
  /\ tasks' = [p \in PassIds |-> [f \in Feeds |->
                 IF tasks[p][f].pc = "backoff"
                   THEN [tasks[p][f] EXCEPT !.wait = @ - d]
                   ELSE tasks[p][f]]]
  /\ loadingElapsed' = IF loadingElapsed = NoTime THEN NoTime ELSE loadingElapsed + d

Tick ==
  /\ \E d \in TimerWaits \cup ExpiryWaits :
       /\ d > 0
       /\ \A w \in TimerWaits : d <= w
       /\ Advance(d)
  /\ lastReturn' = NoReturn
  /\ lastFetch' = NoFetch
  /\ UNCHANGED << upstream, isCurrentlyLoading, calls, failures >>
  /\ UNCHANGED << lastGet, sets, retry, revisionVars >>

Next ==
  \/ FetchAllCacheHit
  \/ FetchAllAlreadyLoading
  \/ \E p \in PassIds : FetchAllStartPass(p)
  \/ \E p \in PassIds, f \in Feeds : RequestSucceeds(p, f)
  \/ \E p \in PassIds, f \in Feeds : RequestMalformed(p, f)
  \/ \E p \in PassIds, f \in Feeds, kind \in ErrorKinds : RequestFails(p, f, kind)
  \/ \E p \in PassIds, f \in Feeds : BackoffFires(p, f)
  \/ \E p \in PassIds : RaceTimersFire(p)
  \/ Tick

Spec == Init /\ [][Next]_vars

(***************************************************************************)
(* SimpleCache called directly: set, get and getAll at chosen instants.    *)
(* Time advances to the instants at which an entry is exactly CACHE_TTL    *)
(* old and one millisecond older.                                          *)
(***************************************************************************)
\* the item lists callers store
CacheData == {MapItems(Docs[k], 1, ItemsPerFeed) : k \in 1..3}

\* faulty variant: set replaces the data of a key that is present and keeps
\* the time of its first set
DirectSetKeepsStamp(k, d) ==
  /\ sets < MaxSets
  /\ sets' = sets + 1
  /\ cache' = IF HasKey(cache, k)
                THEN [cache EXCEPT ![KeyIndex(cache, k)].data = d]
                ELSE Append(cache, CacheEntry(k, d, 0))
  /\ lastGet' = [NoGet EXCEPT !.op = "set", !.key = k, !.stored = d, !.before = cache]
  /\ UNCHANGED << coordinatorVars, retry, revisionVars >>

\* cache.set(key, data)
DirectSet(k, d) ==
  /\ sets < MaxSets
  /\ sets' = sets + 1
  /\ cache' = CacheSet(cache, k, d)
  /\ lastGet' = [NoGet EXCEPT !.op = "set", !.key = k, !.stored = d, !.before = cache]
  /\ UNCHANGED << coordinatorVars, retry, revisionVars >>

\* cache.get(key)
DirectGet(k) ==
  LET g == CacheGet(cache, k) IN
  /\ cache' = g.cache
  /\ lastGet' = [op |-> "get", key |-> k, found |-> HasKey(cache, k),
                 age |-> IF HasKey(cache, k) THEN cache[KeyIndex(cache, k)].age ELSE NoTime,
                 stored |-> IF HasKey(cache, k) THEN cache[KeyIndex(cache, k)].data ELSE << >>,
                 hit |-> g.hit, data |-> g.data, before |-> cache]
  /\ UNCHANGED << coordinatorVars, sets, retry, revisionVars >>

\* cache.getAll()
DirectGetAll ==
  LET g == CacheGetAll(cache) IN
  /\ cache' = g.cache
  /\ lastGet' = [NoGet EXCEPT !.op = "getAll", !.data = g.items, !.before = cache]
  /\ UNCHANGED << coordinatorVars, sets, retry, revisionVars >>

\* the milliseconds that may pass between two reads of Date.now() in one
\* call: none, or one when that takes an entry past CACHE_TTL
ClockTicks(c) == IF \E i \in 1..Len(c) : c[i].age = CACHE_TTL THEN {0, 1} ELSE {0}

\* the cache as it is d milliseconds later
Aged(c, d) == [i \in 1..Len(c) |-> [c[i] EXCEPT !.age = Min(c[i].age + d, AgeCap)]]

\* getCacheStatus(): cache.getAll(), then cache.get(feed.url) for every feed
\* in RSS_FEEDS order; tick[f] is what Date.now() has advanced by when feed
\* f is looked up, late[f] what it has advanced by since getAll
getCacheStatus ==
  \E tick \in [Feeds -> ClockTicks(cache)] :
    LET all == CacheGetAll(cache)
        late == [f \in Feeds |-> Cardinality({g \in 1..f : tick[g] = 1})]
        got == [f \in Feeds |-> CacheGet(Aged(all.cache, late[f]), RSS_FEEDS[f].url)]
        feedOf(k) == CHOOSE f \in Feeds : RSS_FEEDS[f].url = k
    IN /\ cache' = SelectSeq(Aged(all.cache, late[NumFeeds]),
                             LAMBDA e : got[feedOf(e.key)].hit)
       /\ status' = [called |-> TRUE, totalCached |-> Len(all.items),
                     feeds |-> [f \in Feeds |-> IF got[f].hit THEN Len(got[f].data) ELSE 0],
                     ticked |-> \E f \in Feeds : tick[f] = 1,
                     live |-> LET kept == SelectSeq(cache, LAMBDA e : e.age <= CACHE_TTL)
                              IN Len(Flat([i \in 1..Len(kept) |-> kept[i].data]))]
       /\ lastGet' = NoGet
       /\ UNCHANGED << coordinatorVars, sets, retry >>
       /\ UNCHANGED << groupVars, newsVars, search, rebalance, command >>

\* the distances to the instants at which an entry's age is CACHE_TTL, CACHE_TTL + 1
BoundaryWaits ==
  {b - cache[i].age : i \in 1..Len(cache), b \in {CACHE_TTL, AgeCap}}

Elapse ==
  /\ \E d \in BoundaryWaits :
       /\ d > 0
       /\ cache' = [i \in 1..Len(cache) |->
                      [cache[i] EXCEPT !.age = Min(cache[i].age + d, AgeCap)]]
  /\ lastGet' = NoGet
  /\ UNCHANGED << coordinatorVars, sets, retry, revisionVars >>

CacheInit ==
  /\ upstream = Scenario(1)
  /\ RevisionsQuiet
  /\ Loaded
  /\ Unspent

CacheNext ==
  \/ \E f \in Feeds, d \in CacheData : DirectSet(RSS_FEEDS[f].url, d)
  \/ \E f \in Feeds : DirectGet(RSS_FEEDS[f].url)
  \/ DirectGetAll
  \/ getCacheStatus
  \/ Elapse

SpecCache == CacheInit /\ [][CacheNext]_vars

(***************************************************************************)
(* parseRSSWithRetry (unnamed/part_000).  error.message is a sequence of   *)
(* fragments; toLowerCase and includes work fragment by fragment.          *)
(* duration is Date.now() - startTime.                                     *)
(***************************************************************************)
maxRetries == 3
RetryBase == 1000
RetryCap == 10000

retryableErrors ==
  << "socket hang up", "ECONNRESET", "ETIMEDOUT", "ENOTFOUND", "ECONNREFUSED", "timeout" >>

\* String.prototype.toLowerCase on the fragments in use
ToLowerCase(frag) ==
  CASE frag = "ECONNRESET" -> "econnreset"
    [] frag = "ETIMEDOUT" -> "etimedout"
    [] frag = "ENOTFOUND" -> "enotfound"
    [] frag = "ECONNREFUSED" -> "econnrefused"
    [] frag = "Status code" -> "status code"
    [] frag = "Request timed out after" -> "request timed out after"
    [] OTHER -> frag

\* message.toLowerCase().includes(err.toLowerCase())
IncludesLower(message, err) ==
  \E i \in 1..Len(message) : ToLowerCase(message[i]) = ToLowerCase(err)

\* faulty variant: every error is retried
ShouldRetryAlways(message) == message = message

\* retryableErrors.some(...)
ShouldRetry(message) ==
  \E i \in 1..Len(retryableErrors) : IncludesLower(message, retryableErrors[i])

\* the messages parser.parseURL rejects with
ErrorMessages ==
  { << "socket hang up" >>,
    << "connect", "ETIMEDOUT" >>,
    << "Status code", "404" >>,
    << "Request timed out after", "120000ms" >> }

\* how long parser.parseURL takes to settle
RequestDurations == {0, 300}

RECURSIVE Pow2(_)
Pow2(n) == IF n = 0 THEN 1 ELSE 2 * Pow2(n - 1)

\* faulty variant: the delay is not capped
DelayUncapped(attempt) == RetryBase * Pow2(attempt - 1)

\* faulty variant: the exponent is attempt
DelayDoubled(attempt) == Min(RetryBase * Pow2(attempt), RetryCap)

\* Math.min(1000 * Math.pow(2, attempt - 1), 10000)
Delay(attempt) == Min(RetryBase * Pow2(attempt - 1), RetryCap)

\* parseRSSWithRetry(feed): startTime = Date.now(), first attempt
RetryCalled ==
  /\ retry.pc \in {"idle", "returned"}
  /\ retry' = [IdleRetry EXCEPT !.pc = "request", !.attempt = 1,
                                 !.maxRetries = maxRetries]
  /\ UNCHANGED << coordinatorVars, cache, lastGet, sets, revisionVars >>

\* parseRSSWithRetry(feed, n)
RetryCalledWith(n) ==
  /\ retry.pc = "idle"
  /\ retry' = [IdleRetry EXCEPT !.pc = "request", !.attempt = 1, !.maxRetries = n]
  /\ UNCHANGED << coordinatorVars, cache, lastGet, sets, revisionVars >>

\* parser.parseURL resolves after d ms: return the items with their source
ParseURLResolves(d) ==
  /\ retry.pc = "request"
  /\ retry' = [retry EXCEPT !.pc = "returned", !.duration = @ + d,
                 !.returned = [i \in 1..Len(upstream[1]) |-> MapItem(upstream[1][i], 1)]]
  /\ UNCHANGED << coordinatorVars, cache, lastGet, sets, revisionVars >>

\* faulty variant: the last attempt is retried like the others
ParseURLRejectsUnbounded(d, message) ==
  LET failed == [attempt |-> retry.attempt, started |-> retry.started,
                 at |-> retry.duration + d,
                 message |-> message, delay |-> NoTime]
  IN
  /\ retry.pc = "request"
  /\ IF ShouldRetry(message)
       THEN retry' = [retry EXCEPT !.pc = "sleep", !.duration = @ + d,
                        !.timer = Delay(retry.attempt),
                        !.log = Append(@, [failed EXCEPT !.delay = Delay(retry.attempt)])]
       ELSE retry' = [retry EXCEPT !.pc = "returned", !.duration = @ + d,
                        !.log = Append(@, failed), !.returned = << >>]
  /\ UNCHANGED << coordinatorVars, cache, lastGet, sets, revisionVars >>

\* parser.parseURL rejects after d ms with message: sleep and continue, or return []
ParseURLRejects(d, message) ==
  LET isLastAttempt == retry.attempt = retry.maxRetries
      failed == [attempt |-> retry.attempt, started |-> retry.started,
                 at |-> retry.duration + d,
                 message |-> message, delay |-> NoTime]
  IN
  /\ retry.pc = "request"
  /\ IF ShouldRetry(message) /\ ~isLastAttempt
       THEN retry' = [retry EXCEPT !.pc = "sleep", !.duration = @ + d,
                        !.timer = Delay(retry.attempt),
                        !.log = Append(@, [failed EXCEPT !.delay = Delay(retry.attempt)])]
       ELSE retry' = [retry EXCEPT !.pc = "returned", !.duration = @ + d,
                        !.log = Append(@, failed), !.returned = << >>]
  /\ UNCHANGED << coordinatorVars, cache, lastGet, sets, revisionVars >>

\* time passes until the setTimeout of the sleep is due
RetrySleeps ==
  /\ retry.pc = "sleep"
  /\ retry.timer > 0
  /\ retry' = [retry EXCEPT !.duration = @ + retry.timer, !.timer = 0]
  /\ UNCHANGED << coordinatorVars, cache, lastGet, sets, revisionVars >>

\* the timer fires: continue with the next attempt
RetryContinues ==
  /\ retry.pc = "sleep"
  /\ retry.timer = 0
  /\ retry' = [retry EXCEPT !.pc = "request", !.attempt = @ + 1, !.timer = NoTime,
                               !.started = retry.duration]
  /\ UNCHANGED << coordinatorVars, cache, lastGet, sets, revisionVars >>

RetryInit ==
  /\ upstream \in Scenarios
  /\ RevisionsQuiet
  /\ Loaded
  /\ Unspent

RetryNext ==
  \/ RetryCalled
  \/ \E d \in RequestDurations : ParseURLResolves(d)
  \/ \E d \in RequestDurations, message \in ErrorMessages : ParseURLRejects(d, message)
  \/ RetrySleeps
  \/ RetryContinues

SpecRetry == RetryInit /\ [][RetryNext]_vars

(***************************************************************************)
(* Properties                                                              *)
(***************************************************************************)

\* C1 (single-flight): at most one aggregation pass is in flight at any
\* time, so no feed is fetched by the fetchers of two passes at once.
C1_SingleFlight ==
  \A p, q \in PassIds :
     (InFlight(p) /\ InFlight(q)) => p = q

\* C2 (guaranteed cleanup): a pass that returns, with whatever outcome of
\* its fetches, leaves isCurrentlyLoading = false and loadingStartTime =
\* null, and isCurrentlyLoading is never true while no pass is in flight.
C2_LoadingReset ==
  /\ lastReturn.kind = "pass" => (~isCurrentlyLoading /\ loadingElapsed = NoTime)
  /\ (\A p \in PassIds : ~InFlight(p)) => (~isCurrentlyLoading /\ loadingElapsed = NoTime)

\* a pass one of whose fetches failed has just returned and the state is reset
C2_FailedPassReset ==
  /\ lastReturn.kind = "pass"
  /\ \E f \in Feeds : lastReturn.race[f].outcome \in {"failed", "malformed"}
  /\ ~isCurrentlyLoading
  /\ loadingElapsed = NoTime

\* C3 as stated (TTL invariant): get returns an entry written at t exactly
\* at the times t' < t + TTL, and reports it absent from t' = t + TTL on.
C3_AbsentFromTTL ==
  (lastGet.op = "get" /\ lastGet.found) => (lastGet.hit <=> lastGet.age < CACHE_TTL)

\* C3 amended: get returns an entry written at t, with the data written,
\* exactly at the times t' <= t + TTL, and reports it absent (and deletes
\* it) at every t' > t + TTL, TTL + 1 ms included; a key never set is absent.
C3_AbsentAfterTTL ==
  lastGet.op = "get" =>
    /\ lastGet.hit <=> (lastGet.found /\ lastGet.age <= CACHE_TTL)
    /\ lastGet.hit => lastGet.data = lastGet.stored
    /\ (lastGet.found /\ lastGet.age > CACHE_TTL) => ~HasKey(cache, lastGet.key)

\* get is called exactly TTL after set and returns the entry
C3_HitAtTTL ==
  /\ lastGet.op = "get"
  /\ lastGet.found
  /\ lastGet.age = CACHE_TTL
  /\ lastGet.hit

\* C4 (dedup invariant): no two items of a result of fetchAllNewsCloudRun,
\* from a pass or from the cache, share a link.
C4_NoDuplicateLinks ==
  \A i, j \in 1..Len(lastReturn.sortedItems) :
     lastReturn.sortedItems[i].link = lastReturn.sortedItems[j].link => i = j

\* C5 (sort invariant): in every result, each item has a publish time that
\* is no earlier than the publish time of the item behind it.
C5_SortedDescending ==
  \A i \in 1..(Len(lastReturn.sortedItems) - 1) :
     /\ ValidDate(lastReturn.sortedItems[i])
     /\ ValidDate(lastReturn.sortedItems[i + 1])
     /\ lastReturn.sortedItems[i].date >= lastReturn.sortedItems[i + 1].date

C7_FetcherNeverThrows ==
  /\ lastFetch.settled \in {"none", "fulfilled"}
  /\ lastFetch.error # "none" => lastFetch.value = << >>
  /\ \A p \in PassIds, f \in Feeds : passes[p].race[f].st # "rejected"
  /\ \A f \in Feeds : lastReturn.race[f].st # "rejected"

\* a fetch has just settled with [] after its third request failed on an HTTP status
C7_FailedFetchSettled ==
  /\ lastFetch.settled = "fulfilled"
  /\ lastFetch.outcome = "failed"
  /\ lastFetch.error = "status"
  /\ lastFetch.attempts = MaxAttempts
  /\ lastFetch.value = << >>

\* C8 (partial failure): when some feeds failed on all their attempts and
\* every other feed returned items with valid dates, the pass returns all
\* items of the other feeds and only those, newest first, and for a limit
\* n the first n of them.
C8_PartialFailure ==
  LET failed == {f \in Feeds : lastReturn.race[f].outcome = "failed"}
      fine == {f \in Feeds : lastReturn.race[f].outcome = "ok"}
      fetched == [f \in Feeds |-> MapItems(upstream[f], f, ItemsPerFeed)]
      expected == Flat([f \in 1..NumFeeds |-> IF f \in fine THEN fetched[f] ELSE << >>])
      items == lastReturn.sortedItems
  IN
  (/\ lastReturn.kind = "pass"
   /\ failed # {}
   /\ failed \cup fine = Feeds
   /\ \A i \in 1..Len(expected) : ValidDate(expected[i]))
  =>
  /\ \A i \in 1..Len(items) : items[i].source \in {RSS_FEEDS[f].name : f \in fine}
  /\ \A i \in 1..Len(expected) : \E j \in 1..Len(items) : items[j] = expected[i]
  /\ Len(items) = Len(expected)
  /\ \A i \in 1..(Len(items) - 1) : items[i].date >= items[i + 1].date
  /\ \A n \in Limits \ {NoLimit, 0} :
        /\ Len(lastReturn.result[n]) = Min(n, Len(items))
        /\ \A i \in 1..Len(lastReturn.result[n]) : lastReturn.result[n][i] = items[i]

\* a pass has just returned the items of one feed while another failed three times
C8_OneFeedFailed ==
  /\ lastReturn.kind = "pass"
  /\ \E f \in Feeds : lastReturn.race[f].outcome = "failed"
  /\ \A f \in Feeds : lastReturn.race[f].outcome \in {"failed", "ok"}
  /\ Len(lastReturn.sortedItems) >= 2
  /\ \A i \in 1..Len(lastReturn.sortedItems) : ValidDate(lastReturn.sortedItems[i])

\* C9 (total outage): a pass in which no feed yields an item returns []
\* for every limit, and isCurrentlyLoading and loadingStartTime are reset.
C9_TotalOutage ==
  (/\ lastReturn.kind = "pass"
   /\ \A f \in Feeds : lastReturn.race[f].value = << >>)
  =>
  /\ lastReturn.sortedItems = << >>
  /\ \A n \in Limits : lastReturn.result[n] = << >>
  /\ ~isCurrentlyLoading
  /\ loadingElapsed = NoTime

\* a pass has just returned [] after every feed failed, one of them on all attempts
C9_AllFeedsFailed ==
  /\ lastReturn.kind = "pass"
  /\ \A f \in Feeds : lastReturn.race[f].outcome \in {"failed", "malformed", "timeout"}
  /\ \E f \in Feeds : lastReturn.race[f].outcome = "failed"
  /\ lastReturn.sortedItems = << >>

\* C10 as stated (policy (a)): a call that enters while isCurrentlyLoading
\* is true returns an empty result, whatever the cache holds.
C10_EmptyWhileLoading ==
  lastReturn.loadingAtEntry => lastReturn.sortedItems = << >>

\* C10 amended: a call that enters while isCurrentlyLoading is true starts
\* no pass and no fetch; it returns [] when the cache yields no unexpired
\* item, and otherwise the cached items, filtered and sorted.
C10_NoFetchWhileLoading ==
  [][(isCurrentlyLoading /\ calls' = calls + 1) =>
       /\ tasks' = tasks
       /\ passes' = passes
       /\ lastReturn'.loadingAtEntry
       /\ IF CacheGetAll(cache).items = << >>
            THEN lastReturn'.kind = "loading" /\ lastReturn'.sortedItems = << >>
            ELSE /\ lastReturn'.kind = "cache"
                 /\ lastReturn'.sortedItems \in FilterAndSort(CacheGetAll(cache).items)]_vars

\* a call that entered while a pass was loading has just returned cached items
C10_CachedWhileLoading ==
  /\ lastReturn.kind = "cache"
  /\ lastReturn.loadingAtEntry
  /\ lastReturn.sortedItems # << >>
  /\ \E p \in PassIds : InFlight(p)

\* C11 (isLoading tells loading from no data): isLoadingNews() and
\* getCacheStatus().isLoading are true exactly while an aggregation pass is
\* in flight.
C11_LoadingIffInFlight ==
  isLoadingNews <=> (\E p \in PassIds : InFlight(p))

(***************************************************************************)
(* The two-group revision of modules/newsCache.js (lines 323-650):         *)
(* fetchAllNewsCloudRun awaits the first two feeds, and when they yield    *)
(* items it starts the remaining feeds without awaiting them and returns.  *)
(* The 8 s race timers and the parser's own timeout are not clocked: a     *)
(* timer may fire at any step while its race is pending.                   *)
(***************************************************************************)

GroupMapItem(e, f) == [link |-> e.link, date |-> e.date, source |-> f]

\* parsedFeed.items.slice(0, itemsPerFeed).map(...).filter(item => item.link)
GroupMapItems(doc, f) ==
  LET sliced == Take(doc, GroupItemsPerFeed) IN
  SelectSeq([i \in 1..Len(sliced) |-> GroupMapItem(sliced[i], f)],
            LAMBDA it : it.link # "")

\* cache.get(feed.url) of every feed of the round deletes what has expired
GroupPurge(c, r) ==
  SelectSeq(c, LAMBDA e : ~(e.key \in RoundFeeds(r) /\ Expired(e)))

\* fetchWithFastFail(feeds): a cached feed's race is settled at once
GroupLaunch(c, r) ==
  [f \in GroupFeeds |->
     IF f \notin RoundFeeds(r) THEN NotRaced
     ELSE LET g == CacheGet(c, f) IN
          IF g.hit THEN Fulfilled(g.data, "cached") ELSE Pending]

\* the parseRSSFeedSafe invocations the launch leaves waiting for the HEAD probe
GroupStarted(t, p, r, race) ==
  [t EXCEPT ![p][r] = [f \in GroupFeeds |->
                          IF race[f].st = "pending" THEN "head" ELSE t[p][r][f]]]

GroupSettled(race, r) == \A f \in RoundFeeds(r) : race[f].st # "pending"

\* results.map(...) then .flat()
GroupValues(race, r) ==
  Flat([f \in 1..NumGroupFeeds |->
          IF f \in RoundFeeds(r) /\ race[f].st = "fulfilled"
            THEN race[f].value ELSE << >>])

GroupTaskActive(p) == \E r \in Rounds, f \in GroupFeeds : gTasks[p][r][f] # "idle"

GroupInFlight(p) == gPasses[p].phase # "free"

GroupSlotFree(p) == ~GroupInFlight(p) /\ ~GroupTaskActive(p)

\* return limit ? sortedItems.slice(0, limit) : sortedItems; finally
\* bg: the slow feeds whose fetch was started in the background
GroupPassReturns(p, r, race, c, t, bg) ==
  /\ \E sortedItems \in FilterAndSort(GroupValues(race, r)) :
       gReturn' = [kind |-> "pass", pass |-> p, sortedItems |-> sortedItems,
                   round |-> r, race |-> race, background |-> bg,
                   loadingAtEntry |-> FALSE]
  /\ gPasses' = [gPasses EXCEPT ![p] = GroupFreePass]
  /\ gCache' = c
  /\ gTasks' = t
  /\ gLoading' = NotLoading

GroupSuspends(p, r, race, c, t, l) ==
  /\ gPasses' = [gPasses EXCEPT ![p] = [phase |-> r, race |-> race]]
  /\ gCache' = c
  /\ gTasks' = t
  /\ gLoading' = l
  /\ gReturn' = GroupNoReturn

\* the coordinator after a step of round r of pass p: it stays suspended while
\* a race of the round is pending; after the fast round it returns the fast
\* items and starts the slow feeds unawaited, or, with no fast item, tries
\* every feed again; after that round it returns
GroupContinue(p, r, race, c, t, l) ==
  IF ~GroupSettled(race, r)
    THEN GroupSuspends(p, r, race, c, t, l)
  ELSE IF r = "fast" /\ GroupValues(race, "fast") = << >>
    THEN LET all == GroupLaunch(c, "all")
             c2 == GroupPurge(c, "all")
             t2 == GroupStarted(t, p, "all", all)
         IN IF GroupSettled(all, "all")
              THEN GroupPassReturns(p, "all", all, c2, t2, {})
              ELSE GroupSuspends(p, "all", all, c2, t2, l)
  ELSE IF r = "fast"
    THEN LET slow == GroupLaunch(c, "slow")
             c2 == GroupPurge(c, "slow")
             t2 == GroupStarted(t, p, "slow", slow)
         IN GroupPassReturns(p, "fast", race, c2, t2,
                             {f \in slowFeeds : slow[f].st = "pending"})
  ELSE GroupPassReturns(p, "all", race, c, t, {})

\* 1. cachedItems.length > 0
GroupCacheHit ==
  LET g == CacheGetAll(gCache) IN
  /\ g.items # << >>
  /\ \E sortedItems \in FilterAndSort(g.items) :
       gReturn' = [GroupNoReturn EXCEPT !.kind = "cache",
                                        !.sortedItems = sortedItems,
                                        !.loadingAtEntry = gLoading.isCurrentlyLoading]
  /\ gCache' = g.cache
  /\ gLoading' = NotLoading
  /\ UNCHANGED << gUpstream, gPasses, gTasks >>
  /\ UNCHANGED << coordinatorVars, cache, lastGet, sets, retry, newsVars, facadeVars >>

\* 2. if (isCurrentlyLoading) return []
GroupAlreadyLoading ==
  LET g == CacheGetAll(gCache) IN
  /\ g.items = << >>
  /\ gLoading.isCurrentlyLoading
  /\ gReturn' = [GroupNoReturn EXCEPT !.kind = "loading", !.loadingAtEntry = TRUE]
  /\ gCache' = g.cache
  /\ gLoading' = NotLoading
  /\ UNCHANGED << gUpstream, gPasses, gTasks >>
  /\ UNCHANGED << coordinatorVars, cache, lastGet, sets, retry, newsVars, facadeVars >>

\* isCurrentlyLoading = true; await fetchWithFastFail(fastFeeds, itemsPerFeed)
GroupStartPass(p) ==
  LET g == CacheGetAll(gCache)
      fast == GroupLaunch(g.cache, "fast")
  IN
  /\ g.items = << >>
  /\ ~gLoading.isCurrentlyLoading
  /\ GroupSlotFree(p)
  /\ \A q \in GroupPassIds : q < p => ~GroupSlotFree(q)
  /\ GroupContinue(p, "fast", fast, GroupPurge(g.cache, "fast"),
                   GroupStarted(gTasks, p, "fast", fast), NowLoading)
  /\ UNCHANGED gUpstream
  /\ UNCHANGED << coordinatorVars, cache, lastGet, sets, retry, newsVars, facadeVars >>

\* parseRSSFeedSafe of round r returns v: its race settles if still pending
\* and the pass still awaits that round
GroupTaskReturns(p, r, f, v, o, c) ==
  LET t == [gTasks EXCEPT ![p][r][f] = "idle"] IN
  IF gPasses[p].phase = r /\ gPasses[p].race[f].st = "pending"
    THEN GroupContinue(p, r, [gPasses[p].race EXCEPT ![f] = Fulfilled(v, o)],
                       c, t, gLoading)
    ELSE /\ gCache' = c
         /\ gTasks' = t
         /\ gReturn' = GroupNoReturn
         /\ UNCHANGED << gPasses, gLoading >>

\* await fetch(url, {method: "HEAD"}).catch(() => null);
\* if (testResponse && !testResponse.ok) return []
GroupHeadAnswers(p, r, f, refused) ==
  /\ gTasks[p][r][f] = "head"
  /\ IF refused
       THEN GroupTaskReturns(p, r, f, << >>, "status", gCache)
       ELSE /\ gTasks' = [gTasks EXCEPT ![p][r][f] = "parse"]
            /\ gReturn' = GroupNoReturn
            /\ UNCHANGED << gCache, gPasses, gLoading >>
  /\ UNCHANGED gUpstream
  /\ UNCHANGED << coordinatorVars, cache, lastGet, sets, retry, newsVars, facadeVars >>

\* await parser.parseURL(feed.url) resolves: no items -> []; else map,
\* cache.set, return items
GroupParseResolves(p, r, f) ==
  LET doc == gUpstream[f]
      items == GroupMapItems(doc, f)
  IN
  /\ gTasks[p][r][f] = "parse"
  /\ IF doc = << >>
       THEN GroupTaskReturns(p, r, f, << >>, "noitems", gCache)
       ELSE GroupTaskReturns(p, r, f, items, "fetched", CacheSet(gCache, f, items))
  /\ UNCHANGED gUpstream
  /\ UNCHANGED << coordinatorVars, cache, lastGet, sets, retry, newsVars, facadeVars >>

\* parser.parseURL rejects: catch (error) { return [] }
GroupParseRejects(p, r, f) ==
  /\ gTasks[p][r][f] = "parse"
  /\ GroupTaskReturns(p, r, f, << >>, "failed", gCache)
  /\ UNCHANGED gUpstream
  /\ UNCHANGED << coordinatorVars, cache, lastGet, sets, retry, newsVars, facadeVars >>

\* setTimeout(() => resolve([]), 8000): the timers of one round were set
\* together and fire together
GroupTimersFire(p) ==
  LET r == gPasses[p].phase
      race == [f \in GroupFeeds |->
                 IF gPasses[p].race[f].st = "pending"
                   THEN Fulfilled(<< >>, "timeout") ELSE gPasses[p].race[f]]
  IN
  /\ GroupInFlight(p)
  /\ GroupContinue(p, r, race, gCache, gTasks, gLoading)
  /\ UNCHANGED gUpstream
  /\ UNCHANGED << coordinatorVars, cache, lastGet, sets, retry, newsVars, facadeVars >>

\* more than CACHE_TTL passes while nothing is in flight
GroupExpire ==
  /\ gCache # << >>
  /\ \A i \in 1..Len(gCache) : gCache[i].age = 0
  /\ \A p \in GroupPassIds : GroupSlotFree(p)
  /\ gCache' = [i \in 1..Len(gCache) |-> [gCache[i] EXCEPT !.age = AgeCap]]
  /\ gReturn' = GroupNoReturn
  /\ UNCHANGED << gUpstream, gPasses, gTasks, gLoading >>
  /\ UNCHANGED << coordinatorVars, cache, lastGet, sets, retry, newsVars, facadeVars >>

GroupInit ==
  /\ upstream = Scenario(1)
  /\ gUpstream \in GroupScenarios
  /\ newsRevision = "ttl"
  /\ NewsLoaded
  /\ FacadeIdle
  /\ Loaded
  /\ Unspent

GroupNext ==
  \/ GroupCacheHit
  \/ GroupAlreadyLoading
  \/ \E p \in GroupPassIds : GroupStartPass(p)
  \/ \E p \in GroupPassIds, r \in Rounds, f \in GroupFeeds, refused \in BOOLEAN :
       GroupHeadAnswers(p, r, f, refused)
  \/ \E p \in GroupPassIds, r \in Rounds, f \in GroupFeeds : GroupParseResolves(p, r, f)
  \/ \E p \in GroupPassIds, r \in Rounds, f \in GroupFeeds : GroupParseRejects(p, r, f)
  \/ \E p \in GroupPassIds : GroupTimersFire(p)
  \/ GroupExpire

SpecGroups == GroupInit /\ [][GroupNext]_vars

(***************************************************************************)
(* The first revision under the scheduling the runtime gives: the clock    *)
(* advances, and a timer that is due fires.  A request is not obliged to   *)
(* answer.                                                                 *)
(***************************************************************************)
LiveEvents == 3

\* the run is followed for LiveEvents calls and failing requests
LiveInit ==
  /\ upstream = Scenario(1)
  /\ RevisionsQuiet
  /\ Loaded
  /\ calls = MaxEvents - LiveEvents
  /\ failures = 0

Fairness ==
  /\ WF_vars(Tick)
  /\ WF_vars(\E p \in PassIds, f \in Feeds : BackoffFires(p, f))
  /\ WF_vars(\E p \in PassIds : RaceTimersFire(p))

SpecLive == LiveInit /\ [][Next]_vars /\ Fairness

(***************************************************************************)
(* The aggregate cache of modules/news.js: updateNewsCache fetches every   *)
(* feed, each fetch yielding its items or [] when it fails, and replaces    *)
(* newsCache.items with the sorted concatenation; getNewsFromCache serves   *)
(* slices of it.  What a feed answers is chosen when its fetch settles.     *)
(***************************************************************************)

NewsItem(e, f) == [link |-> e.link, date |-> e.date, source |-> f]

\* parsedFeed.items.map(item => ({...item, source: feed.name}))
NewsItems(doc, f) == [i \in 1..Len(doc) |-> NewsItem(doc[i], f)]

\* what a feed may serve
NewsDocs == {Docs[1], Docs[5]}

\* faulty variant: the slice includes the item at its end index
SliceInclusive(s, from, to) ==
  [i \in 1..(Min(to + 1, Len(s)) - Min(from, Len(s))) |-> s[Min(from, Len(s)) + i]]

\* items.slice(offset, offset + count)
Slice(s, from, to) ==
  [i \in 1..(Min(to, Len(s)) - Min(from, Len(s))) |-> s[Min(from, Len(s)) + i]]

Counts == {2, 5}
Offsets == {0, 2}

WaveFree(w) == waves[w].state = "free"

\* isCacheExpired()
isCacheExpired == newsCache.age = NoTime \/ newsCache.age > NEWS_TTL

\* updateNewsCache() up to its await: a wave starts unless isUpdating is set
UpdateStarts(nc, w) ==
  /\ ~nc.isUpdating
  /\ WaveFree(w)
  /\ \A v \in WaveIds : v < w => ~WaveFree(v)
  /\ newsCache' = [nc EXCEPT !.isUpdating = TRUE]
  /\ waves' = [waves EXCEPT ![w] = [state |-> "waiting", results |-> FreeWave.results]]

\* faulty variant: updateNewsCache without the isUpdating guard
updateNewsCacheUnguarded ==
  /\ newsRevision = "timer"
  /\ \E w \in WaveIds :
       /\ WaveFree(w)
       /\ \A v \in WaveIds : v < w => ~WaveFree(v)
       /\ waves' = [waves EXCEPT ![w] = [state |-> "waiting", results |-> FreeWave.results]]
  /\ newsCache' = [newsCache EXCEPT !.isUpdating = TRUE]
  /\ lastNews' = [NoNews EXCEPT !.op = "update", !.started = TRUE, !.before = newsCache]
  /\ UNCHANGED << newsRevision, groupVars, facadeVars >>
  /\ UNCHANGED << coordinatorVars, cache, lastGet, sets, retry >>

\* setInterval(updateNewsCache, 15 * 60 * 1000) of the timer revision
updateNewsCache ==
  /\ newsRevision = "timer"
  /\ IF newsCache.isUpdating
       THEN /\ lastNews' = [NoNews EXCEPT !.op = "update", !.before = newsCache]
            /\ UNCHANGED << newsCache, waves >>
       ELSE /\ \E w \in WaveIds : UpdateStarts(newsCache, w)
            /\ lastNews' = [NoNews EXCEPT !.op = "update", !.started = TRUE,
                                          !.before = newsCache]
  /\ UNCHANGED << newsRevision, groupVars, facadeVars >>
  /\ UNCHANGED << coordinatorVars, cache, lastGet, sets, retry >>

\* faulty variant: every revision refreshes only a cache that was never filled
RefreshesWhenEmpty ==
  newsCache.items = << >> /\ ~newsCache.isUpdating /\ ~newsCache.initialized

\* whether getNewsFromCache calls updateNewsCache()
Refreshes ==
  IF newsRevision = "timer"
    THEN newsCache.items = << >> /\ ~newsCache.isUpdating /\ ~newsCache.initialized
    ELSE isCacheExpired /\ ~newsCache.isUpdating

\* faulty variant: an empty cache is refreshed whether or not it was initialized
NewsFromCacheIgnoresInitialized(count, offset) ==
  LET refreshes == IF newsRevision = "timer"
                     THEN newsCache.items = << >> /\ ~newsCache.isUpdating
                     ELSE Refreshes
  IN
  /\ IF refreshes
       THEN \E w \in WaveIds : UpdateStarts(newsCache, w)
       ELSE UNCHANGED << newsCache, waves >>
  /\ lastNews' = [NoNews EXCEPT !.op = "get", !.count = count, !.offset = offset,
                    !.returned = Slice(newsCache.items, offset, offset + count),
                    !.started = refreshes, !.before = newsCache]

\* the body of getNewsFromCache(count, offset)
NewsFromCache(count, offset) ==
  /\ IF Refreshes
       THEN \E w \in WaveIds : UpdateStarts(newsCache, w)
       ELSE UNCHANGED << newsCache, waves >>
  /\ lastNews' = [NoNews EXCEPT !.op = "get", !.count = count, !.offset = offset,
                    !.returned = Slice(newsCache.items, offset, offset + count),
                    !.started = Refreshes, !.before = newsCache]

\* getNewsFromCache(count, offset), called on its own
getNewsFromCache(count, offset) ==
  /\ NewsFromCache(count, offset)
  /\ UNCHANGED << newsRevision, groupVars, facadeVars >>
  /\ UNCHANGED << coordinatorVars, cache, lastGet, sets, retry >>

WaveSettled(results) == \A f \in NewsFeeds : results[f].st # "pending"

\* one feed's promise resolves with v; when it is the last one, Promise.all
\* resolves and the cache is replaced: items, timestamp, initialized, and
\* finally isUpdating = false
FeedSettles(w, f, v, o) ==
  LET results == [waves[w].results EXCEPT ![f] = Fulfilled(v, o)]
      allItems == Flat([g \in 1..NumNewsFeeds |-> results[g].value])
  IN
  /\ waves[w].state = "waiting"
  /\ waves[w].results[f].st = "pending"
  /\ IF WaveSettled(results)
       THEN /\ \E sorted \in SortOutcomes(allItems) :
                 newsCache' = [items |-> sorted, age |-> 0,
                               isUpdating |-> FALSE, initialized |-> TRUE]
            /\ waves' = [waves EXCEPT ![w] = FreeWave]
            /\ lastNews' = [NoNews EXCEPT !.op = "completed", !.before = newsCache,
                              !.allFailed = \A g \in NewsFeeds : results[g].outcome = "failed"]
       ELSE /\ waves' = [waves EXCEPT ![w].results = results]
            /\ lastNews' = NoNews
            /\ UNCHANGED newsCache
  /\ UNCHANGED << newsRevision, groupVars, facadeVars >>
  /\ UNCHANGED << coordinatorVars, cache, lastGet, sets, retry >>

\* parser.parseURL(feed.url).then(...)
FeedAnswers(w, f, doc) ==
  /\ doc \in NewsDocs
  /\ FeedSettles(w, f, NewsItems(doc, f), "ok")

\* .catch(error => []), and parseRSSWithRetry giving up
FeedFails(w, f) ==
  /\ f \in NewsFeeds
  /\ FeedSettles(w, f, << >>, "failed")

\* the distances to the instants at which the cache's age is TTL, TTL + 1
NewsWaits == {b - newsCache.age : b \in {NEWS_TTL, NEWS_TTL + 1}}

NewsElapse ==
  /\ newsCache.age # NoTime
  /\ \E d \in NewsWaits :
       /\ d > 0
       /\ newsCache' = [newsCache EXCEPT !.age = @ + d]
  /\ lastNews' = NoNews
  /\ UNCHANGED << newsRevision, waves, groupVars, facadeVars >>
  /\ UNCHANGED << coordinatorVars, cache, lastGet, sets, retry >>

\* the module as loaded: the timer and the retry revision have called
\* updateNewsCache(), which is suspended at its await
NewsInit ==
  /\ upstream = Scenario(1)
  /\ gUpstream = [f \in GroupFeeds |-> Docs[1]]
  /\ newsRevision \in NewsRevisions
  /\ FacadeIdle
  /\ IF newsRevision = "ttl"
       THEN NewsLoaded
       ELSE /\ newsCache = [EmptyNewsCache EXCEPT !.isUpdating = TRUE]
            /\ waves = [w \in WaveIds |->
                          IF w = 1 THEN [FreeWave EXCEPT !.state = "waiting"] ELSE FreeWave]
            /\ lastNews = NoNews
  /\ Loaded
  /\ Unspent

NewsNext ==
  \/ updateNewsCache
  \/ \E count \in Counts, offset \in Offsets : getNewsFromCache(count, offset)
  \/ \E w \in WaveIds, f \in NewsFeeds, doc \in NewsDocs : FeedAnswers(w, f, doc)
  \/ \E w \in WaveIds, f \in NewsFeeds : FeedFails(w, f)
  \/ NewsElapse

SpecNews == NewsInit /\ [][NewsNext]_vars

(***************************************************************************)
(* The news command of index.js on the aggregate cache.  When the cache is  *)
(* not ready the handler polls isCacheReady() every second and gives up     *)
(* after 60 seconds; then it calls getNewsFromCache(5, 0) and replies with  *)
(* the news, or with the failure text when it got none.  The continuation   *)
(* of await waitForCache() runs right behind the timer callback that        *)
(* resolved it.  The feeds answer with items, whenever they do.             *)
(***************************************************************************)
PollEvery == 1000
WaitLimit == 60000
PageSize == 5

\* isCacheReady()
isCacheReady == newsCache.items # << >> /\ newsCache.initialized

\* const newsItems = getNewsFromCache(5, 0), and the reply
CommandReplies(waited, polls, sawReady) ==
  /\ NewsFromCache(PageSize, 0)
  /\ command' = [pc |-> "replied", waited |-> waited, polls |-> polls,
                 sawReady |-> sawReady,
                 reply |-> IF Slice(newsCache.items, 0, PageSize) = << >>
                             THEN "failure" ELSE "news"]

\* app.command for news: after ack(), up to the reply or to await waitForCache()
NewsCommand ==
  /\ command.pc = "idle"
  /\ IF isCacheReady
       THEN CommandReplies(0, 0, TRUE)
       ELSE /\ command' = [NoCommand EXCEPT !.pc = "waiting"]
            /\ lastNews' = NoNews
            /\ UNCHANGED << newsCache, waves >>
  /\ UNCHANGED << newsRevision, groupVars, search, rebalance, status >>
  /\ UNCHANGED << coordinatorVars, cache, lastGet, sets, retry >>

\* faulty variant: waitForCache without its setTimeout
WaitTimerFiresNoLimit ==
  LET t == command.waited + PollEvery IN
  /\ command.pc = "waiting"
  /\ t <= WaitLimit + PollEvery
  /\ IF isCacheReady
       THEN CommandReplies(t, command.polls + 1, TRUE)
       ELSE /\ command' = [command EXCEPT !.waited = Min(t, WaitLimit + PollEvery),
                                          !.polls = @ + 1]
            /\ lastNews' = NoNews
            /\ UNCHANGED << newsCache, waves >>
  /\ UNCHANGED << newsRevision, groupVars, search, rebalance, status >>
  /\ UNCHANGED << coordinatorVars, cache, lastGet, sets, retry >>

\* a second passes while the handler waits: the setInterval callback runs
\* and resolves when the cache is ready; at 60 seconds the setTimeout
\* callback resolves whatever the cache holds
WaitTimerFires ==
  LET t == command.waited + PollEvery IN
  /\ command.pc = "waiting"
  /\ IF isCacheReady \/ t >= WaitLimit
       THEN CommandReplies(t, command.polls + 1, isCacheReady)
       ELSE /\ command' = [command EXCEPT !.waited = t, !.polls = @ + 1]
            /\ lastNews' = NoNews
            /\ UNCHANGED << newsCache, waves >>
  /\ UNCHANGED << newsRevision, groupVars, search, rebalance, status >>
  /\ UNCHANGED << coordinatorVars, cache, lastGet, sets, retry >>

CommandNext ==
  \/ NewsCommand
  \/ WaitTimerFires
  \/ \E w \in WaveIds, f \in NewsFeeds : FeedAnswers(w, f, Docs[1])

SpecCommand == NewsInit /\ [][CommandNext]_vars

\* timers that are due fire
CommandFairness == WF_vars(WaitTimerFires)

SpecCommandLive == NewsInit /\ [][CommandNext]_vars /\ CommandFairness

(***************************************************************************)
(* The query facade's search.  modules/newsCache.js as given exports no    *)
(* searchNews, which index.js requires and calls; it is taken from its     *)
(* description: fetchAll, then keep the items whose title, summary or       *)
(* source contains the keyword case-insensitively, then the optional cap;   *)
(* a blank keyword filters nothing.  Texts are sequences of characters.     *)
(***************************************************************************)

\* String.prototype.toLowerCase on the characters in use
LowerChar(ch) ==
  CASE ch = "A" -> "a"
    [] ch = "I" -> "i"
    [] ch = "G" -> "g"
    [] ch = "O" -> "o"
    [] OTHER -> ch

Fold(text) == [i \in 1..Len(text) |-> LowerChar(text[i])]

\* text.includes(part)
Includes(text, part) ==
  \E off \in 0..(Len(text) - Len(part)) :
    \A k \in 1..Len(part) : text[off + k] = part[k]

\* keyword.trim() is empty
Blank(keyword) == \A i \in 1..Len(keyword) : keyword[i] = " "

\* faulty variant: only the title is searched
SearchMatchesTitleOnly(it, keyword) ==
  Includes(Fold(it.title), Fold(keyword))

SearchMatches(it, keyword) ==
  \/ Includes(Fold(it.title), Fold(keyword))
  \/ Includes(Fold(it.summary), Fold(keyword))
  \/ Includes(Fold(it.source), Fold(keyword))

\* searchNews(keyword, limit) over what fetchAllNews() returned
searchNews(items, keyword, limit) ==
  IF Blank(keyword)
    THEN ApplyLimit(items, limit)
    ELSE ApplyLimit(SelectSeq(items, LAMBDA it : SearchMatches(it, keyword)), limit)

MaxFound == 3

\* the items fetchAllNews may return
Found ==
  {[title |-> << "A", "I" >>, summary |-> << "b" >>, source |-> << "G", "o" >>],
   [title |-> << "b" >>, summary |-> << "b", "A", "i", "b" >>, source |-> << "b" >>],
   [title |-> << "b", "b" >>, summary |-> << "b" >>, source |-> << "G", "o" >>],
   [title |-> << "i", "a" >>, summary |-> << >>, source |-> << "b" >>]}

FoundSeqs ==
  {s \in UNION {[1..n -> Found] : n \in 0..MaxFound} :
     \A i, j \in 1..Len(s) : s[i] = s[j] => i = j}

Keywords ==
  {<< "a", "i" >>, << "A", "I" >>, << "g", "O" >>, << "z" >>, << >>, << " " >>}

SearchCalled(keyword, limit) ==
  /\ ~search.called
  /\ search' = [search EXCEPT !.keyword = keyword, !.limit = limit,
                              !.result = searchNews(search.items, keyword, limit),
                              !.called = TRUE]
  /\ UNCHANGED << rebalance, command, status, groupVars, newsVars >>
  /\ UNCHANGED << coordinatorVars, cache, lastGet, sets, retry >>

SearchInit ==
  /\ upstream = Scenario(1)
  /\ gUpstream = [f \in GroupFeeds |-> Docs[1]]
  /\ newsRevision = "ttl"
  /\ NewsLoaded
  /\ Loaded
  /\ Unspent
  /\ rebalance = NoCycle
  /\ command = NoCommand
  /\ status = NoStatus
  /\ \E items \in FoundSeqs : search = [NoSearch EXCEPT !.items = items]

SearchNext == \E keyword \in Keywords, limit \in Limits : SearchCalled(keyword, limit)

SpecSearch == SearchInit /\ [][SearchNext]_vars

(***************************************************************************)
(* The shortfall rebalancer.  No revision under src/ contains it; it is    *)
(* taken from its description: after a collection pass, feeds that had     *)
(* fewer items upstream than requested are compensated by asking feeds     *)
(* with at least twice the requested number for more, once, merging only   *)
(* links not yet present.  An item is its link; link l belongs to feed     *)
(* l \div LinkBase.                                                        *)
(***************************************************************************)

NumRebFeeds == 3
RebFeeds == 1..NumRebFeeds
DeficitBase == 10
LinkBase == 100

\* the first n items a feed with n or more items upstream serves
FeedLinks(f, n) == [i \in 1..n |-> f * LinkBase + i]

Max(a, b) == IF a >= b THEN a ELSE b

Underperforms(st) == st.returned < st.requested /\ st.originalAvailable < st.requested

Overperforms(st) == st.originalAvailable >= 2 * st.requested

\* faulty variant: the items fetched again replace their feed's items
MergeReplacing(result, fetched) ==
  LET again == {fetched[i] \div LinkBase : i \in 1..Len(fetched)} IN
  SelectSeq(result, LAMBDA l : (l \div LinkBase) \notin again) \o fetched

\* merge the new items into the result set, filtering out links already present
MergeNew(result, fetched) ==
  result \o SelectSeq(fetched, LAMBDA l : \A i \in 1..Len(result) : result[i] # l)

RECURSIVE MergeAll(_, _, _)
\* the feeds fetched again are merged in feed order
MergeAll(result, fetched, f) ==
  IF f > NumRebFeeds THEN result
  ELSE MergeAll(MergeNew(result, fetched[f]), fetched, f + 1)

\* extraPerFeed = ceil(shortfall / overperforming_count)
ExtraPerFeed(stats) ==
  LET under == {f \in RebFeeds : Underperforms(stats[f])}
      over == {f \in RebFeeds : Overperforms(stats[f])}
      shortfall == Cardinality(under) * (stats[1].requested - DeficitBase)
  IN CeilDiv(shortfall, Cardinality(over))

\* one rebalancing pass; failing: the feeds whose second fetch fails
Rebalance(failing) ==
  LET stats == rebalance.stats
      under == {f \in RebFeeds : Underperforms(stats[f])}
      over == {f \in RebFeeds : Overperforms(stats[f])}
      want == rebalance.requested + ExtraPerFeed(stats)
      fetched == [f \in RebFeeds |->
                    IF f \in over /\ f \notin failing
                      THEN FeedLinks(f, Min(Max(want, 0), rebalance.available[f]))
                      ELSE << >>]
  IN
  /\ rebalance.passes = 0
  /\ failing \subseteq over
  /\ (under = {} \/ over = {}) => failing = {}
  /\ rebalance' =
       [rebalance EXCEPT
          !.after = IF under # {} /\ over # {}
                      THEN MergeAll(rebalance.before, fetched, 1)
                      ELSE rebalance.before,
          !.passes = 1]
  /\ UNCHANGED << search, command, status, groupVars, newsVars >>
  /\ UNCHANGED << coordinatorVars, cache, lastGet, sets, retry >>

Requests == {9, 12}
Availables == {0, 5, 24, 30}

\* a collection cycle: each feed returned the requested number of items, or
\* what it had, or nothing because its fetch failed
RebalanceInit ==
  /\ upstream = Scenario(1)
  /\ gUpstream = [f \in GroupFeeds |-> Docs[1]]
  /\ newsRevision = "ttl"
  /\ NewsLoaded
  /\ Loaded
  /\ Unspent
  /\ search = NoSearch
  /\ command = NoCommand
  /\ status = NoStatus
  /\ \E r \in Requests, a \in [RebFeeds -> Availables], ok \in [RebFeeds -> BOOLEAN] :
       LET n == [f \in RebFeeds |-> IF ok[f] THEN Min(r, a[f]) ELSE 0] IN
       rebalance =
         [requested |-> r, available |-> a,
          stats |-> [f \in RebFeeds |->
                       [requested |-> r, originalAvailable |-> a[f], returned |-> n[f]]],
          before |-> Flat([f \in RebFeeds |-> FeedLinks(f, n[f])]),
          after |-> << >>, passes |-> 0]

RebalanceNext == \E failing \in SUBSET RebFeeds : Rebalance(failing)

SpecRebalance == RebalanceInit /\ [][RebalanceNext]_vars

(***************************************************************************)
(* parseRSSWithRetry under the scheduling the runtime gives: parser.parseURL *)
(* settles (the parser has a timeout), and a timer that is due fires.      *)
(***************************************************************************)
RetryFairness ==
  /\ WF_vars(\/ \E d \in RequestDurations : ParseURLResolves(d)
             \/ \E d \in RequestDurations, message \in ErrorMessages :
                  ParseURLRejects(d, message))
  /\ WF_vars(RetrySleeps)
  /\ WF_vars(RetryContinues)

SpecRetryLive == RetryInit /\ [][RetryNext]_vars /\ RetryFairness

\* parseRSSWithRetry called once with a maxRetries of the caller's choice
MaxRetriesArg == 6

BackoffNext ==
  \/ \E n \in 1..MaxRetriesArg : RetryCalledWith(n)
  \/ \E d \in RequestDurations : ParseURLResolves(d)
  \/ \E d \in RequestDurations, message \in ErrorMessages : ParseURLRejects(d, message)
  \/ RetrySleeps
  \/ RetryContinues

SpecBackoff == RetryInit /\ [][BackoffNext]_vars

\* C12: within one collection pass every feed's fetch is launched without
\* waiting on another and the coordinator returns only after each has settled
\* (by success, failure or its per-feed timeout): when a pass returns, every
\* feed has a settled race of that pass and none is still being fetched in the
\* background.
C12_AllSettledAtReturn ==
  gReturn.kind = "pass" =>
    \A f \in GroupFeeds : /\ gReturn.race[f].st \in {"fulfilled", "rejected"}
                          /\ f \notin gReturn.background

\* C13: one slow feed cannot stall the batch: a feed whose fetch has not
\* answered when the per-feed timer fires contributes the fallback empty
\* result, the pass returns every dated item of the feeds that were fetched,
\* every pass in flight eventually returns, and isCurrentlyLoading is
\* eventually false.
C13_SlowFeedCannotStall ==
  /\ [](lastReturn.kind = "pass" =>
          \A f \in Feeds :
            /\ lastReturn.race[f].outcome = "timeout" => lastReturn.race[f].value = << >>
            /\ lastReturn.race[f].outcome = "ok" =>
                 LET fetched == SelectSeq(MapItems(upstream[f], f, ItemsPerFeed), HasDate) IN
                 \A i \in 1..Len(fetched) :
                   \E j \in 1..Len(lastReturn.sortedItems) :
                     lastReturn.sortedItems[j] = fetched[i])
  /\ \A p \in PassIds : InFlight(p) ~> ~InFlight(p)
  /\ isCurrentlyLoading ~> ~isCurrentlyLoading

\* a pass has just returned the items of one feed while the other feed's
\* race was settled by its timer
C13_ReturnedDespiteSlowFeed ==
  /\ lastReturn.kind = "pass"
  /\ \E f \in Feeds : lastReturn.race[f].outcome = "timeout"
  /\ \E f \in Feeds : lastReturn.race[f].outcome = "ok"
  /\ lastReturn.sortedItems # << >>

\* C14: the returned order does not depend on the order in which the fetches
\* completed: whenever fetchAllNewsCloudRun returns the items of all feeds
\* (from a pass in which every feed was fetched, or from a cache that holds
\* every feed's items) and all dates are valid, the sequence is the one the
\* sort gives for the feeds taken in RSS_FEEDS order.
C14_OrderIndependentOfCompletion ==
  LET fetched == [f \in Feeds |-> MapItems(upstream[f], f, ItemsPerFeed)]
      inFeedOrder == SelectSeq(Flat([f \in 1..NumFeeds |-> fetched[f]]), HasDate)
      allFetched == /\ lastReturn.kind = "pass"
                    /\ \A f \in Feeds : lastReturn.race[f].outcome = "ok"
      allCached == /\ lastReturn.kind = "cache"
                   /\ \A f \in Feeds : /\ HasKey(cache, f)
                                       /\ cache[KeyIndex(cache, f)].data = fetched[f]
  IN
  ((allFetched \/ allCached) /\ ConsistentCmp(inFeedOrder))
    => lastReturn.sortedItems = StableSort(inFeedOrder)

\* C15: for every limit n >= 0 that is provided, fetchAllNewsCloudRun(n)
\* returns the first min(n, size) items of what it returns without a limit,
\* and never more than n items.
C15_LimitCaps ==
  \A n \in Limits \ {NoLimit} :
    LET uncapped == lastReturn.result[NoLimit]
        capped == lastReturn.result[n]
    IN /\ Len(capped) = Min(n, Len(uncapped))
       /\ Len(capped) <= n
       /\ \A i \in 1..Len(capped) : capped[i] = uncapped[i]

\* C16: getAll returns the concatenation, in store order, of exactly the
\* entries that are at most CACHE_TTL old and deletes the others: afterwards
\* the store holds the unexpired entries, unchanged and in their order, and
\* no expired one; get returns nothing of an entry older than CACHE_TTL.
C16_GetAllLiveOnly ==
  /\ lastGet.op = "getAll" =>
       LET old == lastGet.before
           kept == {i \in 1..Len(old) : old[i].age <= CACHE_TTL}
       IN /\ Len(cache) = Cardinality(kept)
          /\ \A i \in 1..Len(cache) : ~Expired(cache[i])
          /\ \A i \in kept :
               \E j \in 1..Len(cache) :
                 /\ cache[j] = old[i]
                 /\ j = Cardinality({k \in kept : k <= i})
          /\ lastGet.data = Flat([j \in 1..Len(cache) |-> cache[j].data])
  /\ (lastGet.op = "get" /\ lastGet.found /\ lastGet.age > CACHE_TTL) =>
       (~lastGet.hit /\ lastGet.data = << >>)

\* getAll has just met an expired entry and an unexpired one with items:
\* it returned the items of the one and deleted the other
C16_GetAllDroppedExpired ==
  /\ lastGet.op = "getAll"
  /\ \E i \in 1..Len(lastGet.before) : lastGet.before[i].age > CACHE_TTL
  /\ \E i \in 1..Len(lastGet.before) :
       lastGet.before[i].age <= CACHE_TTL /\ lastGet.before[i].data # << >>
  /\ lastGet.data # << >>
  /\ Len(cache) < Len(lastGet.before)

\* C17: a cache update in which every feed fails keeps the cached data:
\* when updateNewsCache completes and no feed could be fetched,
\* newsCache.items is what it was before.
C17_FailedUpdateKeepsCache ==
  (lastNews.op = "completed" /\ lastNews.allFailed)
    => newsCache.items = lastNews.before.items

\* C18: for a keyword that is not blank, searchNews returns items of
\* fetchAllNews whose title, summary or source contains the keyword, case
\* ignored, in fetchAllNews order and without gaps; when there is no limit or
\* fewer items match than the limit, it returns every matching item.
C18_SearchFilters ==
  (search.called /\ ~Blank(search.keyword)) =>
    LET kw == Fold(search.keyword)
        hit(it) == \E text \in {it.title, it.summary, it.source} :
                     Includes(Fold(text), kw)
        hits == {i \in 1..Len(search.items) : hit(search.items[i])}
        nth(j) == CHOOSE i \in hits : Cardinality({k \in hits : k <= i}) = j
    IN /\ Len(search.result) <= Cardinality(hits)
       /\ \A j \in 1..Len(search.result) : search.result[j] = search.items[nth(j)]
       /\ (search.limit = NoLimit \/ Cardinality(hits) < search.limit)
            => Len(search.result) = Cardinality(hits)

\* a search with a limit above the number of matches has returned an item
\* that matches in its summary or source only, in another case than the
\* keyword's, and left out an item that does not match
C18_MatchedBySummaryOrSource ==
  /\ search.called
  /\ search.keyword = << "a", "i" >>
  /\ search.limit = 2
  /\ Len(search.result) = 1
  /\ Len(search.items) = 3
  /\ ~Includes(Fold(search.result[1].title), << "a", "i" >>)

\* C19: the rebalancer never shrinks the result set: after its pass the
\* result set has at least as many items as before, whatever the per-feed
\* stats (requested, originalAvailable, returned) are.
C19_RebalanceNeverShrinks ==
  rebalance.passes = 1 => Len(rebalance.after) >= Len(rebalance.before)

\* the rebalancer has fetched again from a feed with headroom because another
\* feed had too few items; in one cycle it extended the result set, in
\* another, with requested below the fixed deficit, it asked for fewer items
\* than before and added nothing
C19_RebalanceExtended ==
  /\ rebalance.passes = 1
  /\ \E f \in RebFeeds : Underperforms(rebalance.stats[f])
  /\ \E f \in RebFeeds : Overperforms(rebalance.stats[f])
  /\ \/ Len(rebalance.after) > Len(rebalance.before)
     \/ (ExtraPerFeed(rebalance.stats) < 0 /\ rebalance.after = rebalance.before
         /\ rebalance.before # << >>)

\* C20: a call fetches every feed that has no valid cache entry, also when
\* other feeds have one: a call that is answered from the cache starts no
\* fetch, so after it every feed is in the cache.
C20_MissingFeedsFetched ==
  lastReturn.kind = "cache" =>
    \A f \in Feeds : HasKey(cache, RSS_FEEDS[f].url)

\* C21: a call that returns early, from the cache or because a pass is
\* loading, leaves the loading state as it found it: isCurrentlyLoading has
\* the value it had on entry, and loadingStartTime is still set if loading.
C21_EarlyReturnKeepsLoadingState ==
  lastReturn.kind \in {"cache", "loading"} =>
    /\ isCurrentlyLoading = lastReturn.loadingAtEntry
    /\ lastReturn.loadingAtEntry => loadingElapsed # NoTime

C23_NonRetryableEnds ==
  \A i \in 1..Len(retry.log) :
    retry.log[i].message \in {<< "Status code", "404" >>,
                              << "Request timed out after", "120000ms" >>}
      => /\ i = Len(retry.log)
         /\ retry.pc = "returned"
         /\ retry.returned = << >>
         /\ retry.attempt = retry.log[i].attempt
         /\ retry.log[i].delay = NoTime
         /\ retry.duration = retry.log[i].at

\* the first attempt failed with a retryable error, the second with an HTTP
\* status, and the call returned [] without a third attempt
C23_EndedOnSecondAttempt ==
  /\ retry.pc = "returned"
  /\ Len(retry.log) = 2
  /\ ShouldRetry(retry.log[1].message)
  /\ retry.log[2].message = << "Status code", "404" >>
  /\ retry.attempt = 2

\* C24: in parseRSSFeedSafe a request that fails on an HTTP error status or
\* on an empty body is not retried: the fetch ends at that request with []
\* and no backoff wait follows it.
C24_StatusNotRetried ==
  lastFetch.error \in {"status", "empty"} =>
    /\ lastFetch.settled = "fulfilled"
    /\ lastFetch.value = << >>
    /\ Len(lastFetch.slept) < lastFetch.attempts

\* C25: a feed fetch ends after at most 3 attempts whatever the attempts'
\* outcomes are, and attempts no more once one has succeeded: the attempts
\* are numbered 1, 2, 3 without repetition, each failure belongs to its own
\* attempt, a call that has returned makes no further request, and every
\* call returns.
C25_AtMostThreeAttempts ==
  /\ [](/\ retry.attempt <= 3
        /\ Len(retry.log) <= retry.attempt
        /\ \A i \in 1..Len(retry.log) : retry.log[i].attempt = i
        /\ retry.pc \in {"request", "sleep"} =>
             (retry.attempt = Len(retry.log) + (IF retry.pc = "request" THEN 1 ELSE 0))
        /\ retry.pc = "returned" => retry.attempt \in {Len(retry.log), Len(retry.log) + 1})
  /\ [][retry.pc = "returned" =>
          (retry'.pc = "request" => (retry'.attempt = 1 /\ retry'.log = << >>))]_vars
  /\ (retry.pc = "request") ~> (retry.pc = "returned")

\* the first attempt failed with a retryable error, the second succeeded and
\* the call returned its items
C25_SucceededOnSecondAttempt ==
  /\ retry.pc = "returned"
  /\ retry.attempt = 2
  /\ Len(retry.log) = 1
  /\ retry.returned # << >>

C27_FirstLinkedEntries ==
  lastFetch.outcome = "ok" =>
    LET linked == SelectSeq(upstream[lastFetch.feed], LAMBDA e : e.link # "") IN
    Len(linked) >= ItemsPerFeed =>
      /\ Len(lastFetch.value) = ItemsPerFeed
      /\ \A i \in 1..ItemsPerFeed : lastFetch.value[i].link = linked[i].link

\* C28: no item of a fetchAllNewsCloudRun result lacks a parsable publish
\* date: an item with no date and an item whose date does not parse are
\* both filtered out before the sort.
C28_NoUnparsableDateInResult ==
  \A i \in 1..Len(lastReturn.sortedItems) :
     /\ lastReturn.sortedItems[i].date # NoDate
     /\ lastReturn.sortedItems[i].date # BadDate

\* C29: set(key, items) overwrites the entry of the key and stamps it now:
\* right after a set the cache holds one entry for the key, with the new
\* items and age zero, and the entries of all other keys are what they
\* were; a get of the key right after returns the new items, however old
\* the entry was that the set replaced.
C29_SetOverwritesAndStamps ==
  /\ [](lastGet.op = "set" =>
          LET old == lastGet.before
              mine == {i \in 1..Len(cache) : cache[i].key = lastGet.key}
          IN /\ Cardinality(mine) = 1
             /\ \A i \in mine : cache[i].data = lastGet.stored /\ cache[i].age = 0
             /\ \A i \in 1..Len(old) :
                  old[i].key # lastGet.key => cache[i] = old[i]
             /\ Len(cache) = Len(old) +
                  (IF \E i \in 1..Len(old) : old[i].key = lastGet.key THEN 0 ELSE 1))
  /\ [][(lastGet.op = "set" /\ lastGet'.op = "get" /\ lastGet'.key = lastGet.key)
          => (lastGet'.hit /\ lastGet'.data = lastGet.stored /\ cache' = cache)]_vars

\* a set has just replaced an expired entry holding other items while the
\* cache held an aged entry of another key
C29_OverwroteExpiredEntry ==
  /\ lastGet.op = "set"
  /\ \E i \in 1..Len(lastGet.before) :
       /\ lastGet.before[i].key = lastGet.key
       /\ lastGet.before[i].age > CACHE_TTL
       /\ lastGet.before[i].data # lastGet.stored
  /\ \E i \in 1..Len(lastGet.before) :
       /\ lastGet.before[i].key # lastGet.key
       /\ lastGet.before[i].age > 0

\* C30: in every reachable state no item held in the cache lacks both a
\* link and a publish time that resolves; an entry lacking both is
\* discarded before cache.set.
C30_NoCachedItemLacksBoth ==
  \A i \in 1..Len(cache) : \A j \in 1..Len(cache[i].data) :
     ~(cache[i].data[j].link = "" /\ ~ValidDate(cache[i].data[j]))

\* the cache holds the items of a feed just fetched whose document has,
\* among the entries taken, one with neither link nor date
C30_CachedFeedWithBareEntry ==
  /\ lastFetch.outcome = "ok"
  /\ \E i \in 1..Min(ItemsPerFeed, Len(upstream[lastFetch.feed])) :
       /\ upstream[lastFetch.feed][i].link = ""
       /\ upstream[lastFetch.feed][i].date = NoDate
  /\ HasKey(cache, RSS_FEEDS[lastFetch.feed].url)
  /\ cache[KeyIndex(cache, RSS_FEEDS[lastFetch.feed].url)].data # << >>

\* C31: in the aggregate cache at most one update wave is in flight at any
\* time, whatever the order of the load-time call, the timer's calls and
\* the getNewsFromCache calls; isUpdating is set exactly while a wave is in
\* flight; an updateNewsCache call turned away by the isUpdating guard
\* leaves isUpdating, items and timestamp as they were.
C31_OneWaveInFlight ==
  /\ Cardinality({w \in WaveIds : waves[w].state = "waiting"}) <= 1
  /\ newsCache.isUpdating <=> \E w \in WaveIds : waves[w].state = "waiting"
  /\ (lastNews.op = "update" /\ ~lastNews.started) =>
       /\ lastNews.before.isUpdating
       /\ newsCache = lastNews.before
  /\ (lastNews.op = "get" /\ lastNews.before.isUpdating) =>
       /\ ~lastNews.started
       /\ newsCache = lastNews.before

\* the timer's call has just been turned away while a wave was in flight
\* and the cache held the items of an earlier wave
C31_TimerRejectedWhileUpdating ==
  /\ lastNews.op = "update"
  /\ ~lastNews.started
  /\ newsCache.items # << >>
  /\ newsCache.age > 0
  /\ \E w \in WaveIds, f \in NewsFeeds :
       waves[w].state = "waiting" /\ waves[w].results[f].st # "pending"

\* C32: in the TTL revisions, getNewsFromCache on a cache that holds items
\* older than the TTL returns the requested slice of those items; it starts
\* a refresh when none is running and none when one is, so one refresh is
\* in flight after the call, and the items stay until the refresh completes.
C32_StaleServedOneRefresh ==
  (/\ newsRevision # "timer"
   /\ lastNews.op = "get"
   /\ lastNews.before.items # << >>
   /\ lastNews.before.age > NEWS_TTL)
  =>
  /\ lastNews.returned =
       [i \in 1..(Min(lastNews.offset + lastNews.count, Len(lastNews.before.items))
                  - Min(lastNews.offset, Len(lastNews.before.items))) |->
          lastNews.before.items[Min(lastNews.offset, Len(lastNews.before.items)) + i]]
  /\ lastNews.started <=> ~lastNews.before.isUpdating
  /\ newsCache.items = lastNews.before.items
  /\ newsCache.isUpdating
  /\ Cardinality({w \in WaveIds : waves[w].state = "waiting"}) = 1

\* a call has just been served stale items while the refresh an earlier
\* call started was running, one feed of which has answered
C32_SecondCallDuringRefresh ==
  /\ newsRevision # "timer"
  /\ lastNews.op = "get"
  /\ lastNews.before.age > NEWS_TTL
  /\ lastNews.before.isUpdating
  /\ ~lastNews.started
  /\ lastNews.returned # << >>
  /\ \E w \in WaveIds, f \in NewsFeeds :
       waves[w].state = "waiting" /\ waves[w].results[f].st # "pending"

\* C33: in the TTL revision that starts no refresh at load, with an empty
\* cache and feeds that answer with items, the first news command ends
\* with the news delivered and not with the failure reply.
C33_FirstRequestDelivers ==
  (newsRevision = "ttl" /\ command.pc = "replied") => command.reply = "news"

\* C34: in the revision with the initialized flag, getNewsFromCache starts
\* an update only when the cache is empty, no update is running and the
\* cache was never initialized; once an update has completed
\* getNewsFromCache starts none, and an update that starts then is the
\* timer's.
C34_InitializedStopsRefresh ==
  newsRevision = "timer" =>
    /\ (lastNews.op = "get" /\ lastNews.started) =>
         /\ lastNews.before.items = << >>
         /\ ~lastNews.before.isUpdating
         /\ ~lastNews.before.initialized
    /\ (lastNews.started /\ lastNews.before.initialized) => lastNews.op = "update"
    /\ (lastNews.op = "get" /\ ~lastNews.started) =>
         (newsCache = lastNews.before /\ \A w \in WaveIds :
            waves[w].state = "waiting" => lastNews.before.isUpdating)

\* getNewsFromCache has just been called on a cache that an update left
\* empty, with no update running, and has started none
C34_EmptyAfterUpdateNoRefresh ==
  /\ newsRevision = "timer"
  /\ lastNews.op = "get"
  /\ lastNews.before.initialized
  /\ lastNews.before.items = << >>
  /\ ~lastNews.before.isUpdating
  /\ ~lastNews.started
  /\ lastNews.returned = << >>

\* C35: a caller blocked because the cache is not ready resumes at the
\* first poll, one every second, that sees the cache ready, and at the
\* latest 60 seconds after it blocked; it then replies with the news when
\* the cache holds items and with the failure text when it holds none; it
\* never stays blocked.
C35_BoundedWait ==
  /\ [](command.pc = "waiting" =>
          /\ command.waited < WaitLimit
          /\ command.waited = command.polls * PollEvery)
  /\ [](command.pc = "replied" =>
          /\ command.waited <= WaitLimit
          /\ command.waited < WaitLimit => command.sawReady)
  /\ [][(command.pc = "waiting" /\ command'.polls > command.polls) =>
          /\ command'.pc = "waiting" => ~isCacheReady
          /\ isCacheReady => (command'.pc = "replied" /\ command'.reply = "news")]_vars
  /\ [][(command.pc # "replied" /\ command'.pc = "replied") =>
          (command'.reply = "news" <=> newsCache.items # << >>)]_vars
  /\ (command.pc = "waiting") ~> (command.pc = "replied")

\* the handler gave up after 60 polls none of which saw the cache ready,
\* while an update was running
C35_GaveUpAfterSixtySeconds ==
  /\ command.pc = "replied"
  /\ command.waited = WaitLimit
  /\ command.polls * PollEvery = WaitLimit
  /\ ~command.sawReady
  /\ command.reply = "failure"
  /\ newsRevision # "ttl"

\* C36: with no fetch still running and no entry expiring in between, a
\* call served from the cache returns the items, in the order, that the
\* pass that populated the cache returned to its caller: a call answered
\* from the cache right after a pass in which every feed was fetched, all
\* items validly dated, returns what that pass returned.
C36_CacheHitRepeatsPass ==
  [][(/\ lastReturn.kind = "pass"
      /\ lastReturn'.kind = "cache"
      /\ \A p \in PassIds, f \in Feeds : tasks[p][f].pc = "idle"
      /\ \A p \in PassIds : ~InFlight(p)
      /\ \A f \in Feeds : lastReturn.race[f].outcome = "ok"
      /\ \A i \in 1..Len(lastReturn.sortedItems) : ValidDate(lastReturn.sortedItems[i]))
     => lastReturn'.sortedItems = lastReturn.sortedItems]_vars

\* C37: in every reachable state isCurrentlyLoading is true exactly when
\* loadingStartTime is not null.
C37_LoadingIffStartTime ==
  isCurrentlyLoading <=> loadingElapsed # NoTime

\* a call that returned early has reset both while a pass that set them
\* some time ago is still running
C37_ResetWhilePassRuns ==
  /\ ~isCurrentlyLoading
  /\ loadingElapsed = NoTime
  /\ \E p \in PassIds : InFlight(p) /\ passes[p].elapsed > 0

\* C38: getNewsFromCache(count, offset) returns the items at positions
\* offset .. offset + count - 1 of the cache, counted from 0: fewer where
\* the cache ends, none when offset >= size; so the pages of one size
\* asked for at offsets 0, count, 2 * count, ... of an unchanged cache are
\* its items in order, each once.
C38_Pagination ==
  /\ lastNews.op = "get" =>
       LET items == lastNews.before.items
           size == Len(items)
           n == IF lastNews.offset >= size THEN 0
                ELSE IF size - lastNews.offset < lastNews.count
                       THEN size - lastNews.offset ELSE lastNews.count
       IN /\ Len(lastNews.returned) = n
          /\ \A i \in 1..n : lastNews.returned[i] = items[lastNews.offset + i]
  /\ \A count \in Counts :
       Flat([k \in 1..(Len(newsCache.items) \div count + 1) |->
               Slice(newsCache.items, (k - 1) * count, k * count)])
       = newsCache.items

\* a page past the first has just been returned with fewer items than asked
\* for, because the cache ends
C38_ShortLastPage ==
  /\ lastNews.op = "get"
  /\ lastNews.offset > 0
  /\ Len(lastNews.returned) > 0
  /\ Len(lastNews.returned) < lastNews.count
  /\ Len(lastNews.before.items) > lastNews.count

\* C39: getCacheStatus().totalCached always equals the sum of the per-feed
\* counts it reports.
\* counts it reports, and both count the items of the entries that were
\* not expired when the call was made.
C39_TotalIsSumOfFeeds ==
  status.called =>
    /\ status.totalCached =
         Len(Flat([f \in 1..NumFeeds |-> [i \in 1..status.feeds[f] |-> f]]))
    /\ status.totalCached = status.live

\* C40: in parseRSSWithRetry, for every maxRetries, every attempt
\* i < maxRetries that fails with a retryable error is followed by a wait
\* of exactly min(1000 * 2^(i-1), 10000) ms before attempt i + 1 starts;
\* the wait never exceeds 10000 ms and never decreases from one attempt to
\* the next.
C40_BackoffWithoutJitter ==
  \A i \in 1..Len(retry.log) :
     LET e == retry.log[i]
         wait == IF 1000 * 2^(i - 1) < 10000 THEN 1000 * 2^(i - 1) ELSE 10000
     IN /\ e.attempt = i
        /\ (ShouldRetry(e.message) /\ i < retry.maxRetries) <=> e.delay # NoTime
        /\ e.delay # NoTime =>
             /\ e.delay = wait
             /\ e.delay <= 10000
             /\ i > 1 => e.delay >= retry.log[i - 1].delay
             /\ i < Len(retry.log) => retry.log[i + 1].started - e.at = wait
             /\ (i = Len(retry.log) /\ retry.pc = "request") => retry.started - e.at = wait

\* a call with maxRetries 6 has failed six times; the wait after the fifth
\* attempt was capped at 10000 ms
C40_CapReached ==
  /\ retry.pc = "returned"
  /\ retry.maxRetries = 6
  /\ Len(retry.log) = 6
  /\ retry.log[4].delay = 8000
  /\ retry.log[5].delay = 10000
  /\ retry.log[6].delay = NoTime

====
